---- MODULE Spec2Model ----
(***************************************************************************)
(* LLAMATUI-WEB-SERVER: the process supervisor, the log capture thread     *)
(* and the controller loop of the LlamaTUI class.                          *)
(*                                                                         *)
(* The repository holds three revisions of the same program: llamatui.py   *)
(* (the most complete one), 9.py and 6.py.  The variable rev says which    *)
(* revision is running; the revisions share kill_server, the log reader    *)
(* and check_schedule line for line, and differ in the launch command      *)
(* that start_server builds and in the set of configuration fields.        *)
(***************************************************************************)
EXTENDS Integers, Sequences, FiniteSets, TLC

(***************************************************************************)
(* Bounds of the model.                                                    *)
(***************************************************************************)
\* Number of children (Popen objects) one run of the program may spawn.
MaxStarts == 2
\* log_max_lines is 1000 in the source (src/llamatui.py:40); the model keeps
\* the comparison `len(log_buffer) > log_max_lines` and scales the number.
log_max_lines == 1
\* Lines one child writes to its diagnostic stream: one blank line and enough
\* text lines to overflow the buffer by one.
MaxWrites == log_max_lines + 2
\* max_items is the height of the model list, list_h - 2, at least 10 in a
\* window the program accepts (src/llamatui.py:414); the model keeps the
\* comparisons of the drawing code and scales the number.
max_items == 1

(***************************************************************************)
(* Values.                                                                 *)
(***************************************************************************)
None == 0                       \* Python's None where the field holds a child
NoPath == "None"                \* Python's None where the field holds a path
Children == 1..MaxStarts        \* the n-th Popen object, and its reader thread
Revisions == {"llamatui", "9"}

LLAMA_SERVER_BIN == "llama-server"
Backends == <<"CPU", "CUDA", "VULKAN">>

\* The wall clock at minute resolution, as strftime("%H:%M") prints it: the
\* character codes of 08:00 and 08:01.
Clock == << <<48, 56, 58, 48, 48>>, <<48, 56, 58, 48, 49>> >>
NextMinute(t) == IF t = Clock[Len(Clock)] THEN Clock[1]
                 ELSE Clock[(CHOOSE i \in 1..Len(Clock) : Clock[i] = t) + 1]

\* Bytes: what str.strip() removes.
Whitespace == {9, 10, 11, 12, 13, 32}
\* The k-th line of child c carries one letter that names (c, k).
Letter(c, k) == 64 + (c - 1) * MaxWrites + k
TextLine(c, k) == <<32, Letter(c, k), 10>>
BlankLine == <<32, 10>>
\* A line with a byte that is no UTF-8.
BadLine(c, k) == <<255, Letter(c, k), 10>>
\* What child c writes: its first line does not decode, its second line is
\* blank, the others are text.
Script(c) ==
    [k \in 1..MaxWrites |->
        IF k = 1 THEN BadLine(c, k)
        ELSE IF k = 2 THEN BlankLine ELSE TextLine(c, k)]

(***************************************************************************)
(* line.decode(sys.getdefaultencoding(), errors='replace').strip()         *)
(***************************************************************************)
\* errors='replace': a byte that is no valid character becomes U+FFFD.
DecodeByte(b) == IF b < 128 THEN b ELSE 65533
decode(line) == [i \in 1..Len(line) |-> DecodeByte(line[i])]

RECURSIVE lstrip(_)
lstrip(s) == IF s # <<>> /\ Head(s) \in Whitespace THEN lstrip(Tail(s)) ELSE s
RECURSIVE rstrip(_)
rstrip(s) == IF s # <<>> /\ s[Len(s)] \in Whitespace
             THEN rstrip(SubSeq(s, 1, Len(s) - 1)) ELSE s
strip(s) == rstrip(lstrip(s))

\* list.pop(0)
pop0(buf) == Tail(buf)

(***************************************************************************)
(* str(n) and int(s) on decimal numerals, as sequences of character codes, *)
(* and the text typed at a prompt.                                         *)
(***************************************************************************)
DigitCodes == 48..57
Chr == [b \in DigitCodes \cup {45} |->
           IF b = 45 THEN "-"
           ELSE <<"0", "1", "2", "3", "4", "5", "6", "7", "8", "9">>[b - 47]]
\* The character codes as one string.
RECURSIVE Text(_)
Text(cs) == IF cs = <<>> THEN "" ELSE Chr[Head(cs)] \o Text(Tail(cs))

RECURSIVE digits(_)
digits(n) == IF n < 10 THEN <<48 + n>>
             ELSE Append(digits(n \div 10), 48 + (n % 10))
str(n) == IF n < 0 THEN <<45>> \o digits(0 - n) ELSE digits(n)

RECURSIVE value(_)
value(ds) == IF ds = <<>> THEN 0
             ELSE 10 * value(SubSeq(ds, 1, Len(ds) - 1)) + (ds[Len(ds)] - 48)
\* int(s): an optional sign and decimal digits; anything else is a ValueError.
int(s) ==
    LET signed == s # <<>> /\ Head(s) \in {43, 45}
        ds == IF signed THEN Tail(s) ELSE s
    IN  IF ds = <<>> \/ \E i \in 1..Len(ds) : ds[i] \notin DigitCodes
        THEN [ok |-> FALSE, val |-> 0]
        ELSE [ok |-> TRUE,
              val |-> IF signed /\ Head(s) = 45 THEN 0 - value(ds) ELSE value(ds)]

\* datetime.strptime(t, "%H:%M") succeeds: the pattern is
\* (2[0-3]|[0-1]\d|\d):([0-5]\d|\d) and must match the whole of t.
strptime_HM(t) ==
    \E i \in 1..Len(t) :
       LET H == SubSeq(t, 1, i - 1)
           M == SubSeq(t, i + 1, Len(t))
       IN  /\ t[i] = 58
           /\ Len(H) \in {1, 2} /\ \A j \in 1..Len(H) : H[j] \in DigitCodes
           /\ Len(M) \in {1, 2} /\ \A j \in 1..Len(M) : M[j] \in DigitCodes
           /\ value(H) <= 23 /\ value(M) <= 59

\* input_string: win.getstr().decode('utf-8').strip(), "" when that raises
\* (a byte that is no UTF-8), and the default when nothing is left.
input_string(typed, default_val) ==
    LET box == IF \E i \in 1..Len(typed) : typed[i] >= 128 THEN <<>>
               ELSE strip(typed)
    IN  IF box # <<>> THEN box ELSE default_val

(***************************************************************************)
(* The host's file system.  A path is the sequence of its components; a    *)
(* node is a directory, a regular file or a symbolic link.                 *)
(***************************************************************************)
DirNode == [kind |-> "dir", to |-> <<>>]
FileNode == [kind |-> "file", to |-> <<>>]
LinkNode(target) == [kind |-> "link", to |-> target]

Disk ==
    (<<>> :> DirNode)
    @@ (<<"models">> :> DirNode)
    @@ (<<"models", "b.gguf">> :> LinkNode(<<"store", "b.gguf">>))
    @@ (<<"models", "a.gguf">> :> FileNode)
    @@ (<<"models", "c.txt">> :> FileNode)
    @@ (<<"models", "d.gguf">> :> DirNode)
    @@ (<<"models", "link">> :> LinkNode(<<"store", "sub">>))
    @@ (<<"empty">> :> DirNode)
    @@ (<<"empty", "c.txt">> :> FileNode)
    @@ (<<"store">> :> DirNode)
    @@ (<<"store", "b.gguf">> :> FileNode)
    @@ (<<"store", "sub">> :> DirNode)
    @@ (<<"store", "z">> :> DirNode)
    @@ (<<"bin">> :> DirNode)

\* The characters of the names found in directories, as code points.
Codes ==
    [ n \in {"a.gguf", "b.gguf", "c.txt", "d.gguf", "link", "models", "empty",
             "store", "sub", "z", "bin"} |->
        CASE n = "a.gguf" -> <<97, 46, 103, 103, 117, 102>>
          [] n = "b.gguf" -> <<98, 46, 103, 103, 117, 102>>
          [] n = "c.txt" -> <<99, 46, 116, 120, 116>>
          [] n = "d.gguf" -> <<100, 46, 103, 103, 117, 102>>
          [] n = "link" -> <<108, 105, 110, 107>>
          [] n = "models" -> <<109, 111, 100, 101, 108, 115>>
          [] n = "empty" -> <<101, 109, 112, 116, 121>>
          [] n = "store" -> <<115, 116, 111, 114, 101>>
          [] n = "sub" -> <<115, 117, 98>>
          [] n = "z" -> <<122>>
          [] n = "bin" -> <<98, 105, 110>> ]

\* str(path)
RECURSIVE PathStr(_)
PathStr(p) == IF p = <<>> THEN "" ELSE "/" \o Head(p) \o PathStr(Tail(p))

parent(p) == IF p = <<>> THEN <<>> ELSE SubSeq(p, 1, Len(p) - 1)
name(p) == p[Len(p)]

\* The kernel's path walk from directory cur along rest: `..` is the parent
\* of the directory the walk has reached, and a link is followed to its
\* (absolute) target.
RECURSIVE walk(_, _)
walk(cur, rest) ==
    IF cur \notin DOMAIN Disk THEN [ok |-> FALSE, path |-> cur]
    ELSE IF Disk[cur].kind = "link" THEN walk(Disk[cur].to, rest)
    ELSE IF rest = <<>> THEN [ok |-> TRUE, path |-> cur]
    ELSE IF Disk[cur].kind # "dir" THEN [ok |-> FALSE, path |-> cur]
    ELSE IF Head(rest) = ".." THEN walk(parent(cur), Tail(rest))
    ELSE IF Head(rest) = "." THEN walk(cur, Tail(rest))
    ELSE walk(Append(cur, Head(rest)), Tail(rest))

\* os.path.isdir(p), Path(p).is_dir(), Path(p).is_file(): stat follows links.
isdir(p) == LET r == walk(<<>>, p) IN r.ok /\ Disk[r.path].kind = "dir"
is_file(p) == LET r == walk(<<>>, p) IN r.ok /\ Disk[r.path].kind = "file"
\* Path(p).exists()
exists(p) == walk(<<>>, p).ok

\* os.path.abspath(p) of an absolute path is normpath(p): `.` and `..` are
\* removed from the text, without looking at the disk.
RECURSIVE normpath(_, _)
normpath(done, rest) ==
    IF rest = <<>> THEN done
    ELSE IF Head(rest) = "." THEN normpath(done, Tail(rest))
    ELSE IF Head(rest) = ".." THEN normpath(parent(done), Tail(rest))
    ELSE normpath(Append(done, Head(rest)), Tail(rest))
abspath(p) == normpath(<<>>, p)

\* fnmatch(name, "*.gguf")
GgufSuffix == <<46, 103, 103, 117, 102>>
fnmatch_gguf(n) ==
    LET cs == Codes[n] IN
    /\ Len(cs) >= Len(GgufSuffix)
    /\ SubSeq(cs, Len(cs) - Len(GgufSuffix) + 1, Len(cs)) = GgufSuffix

\* Wrong on purpose: a listing that takes every entry of the directory.
glob_everything(dir) ==
    LET d == walk(<<>>, dir).path IN
    { Append(dir, name(q)) : q \in { q \in DOMAIN Disk :
          q # <<>> /\ parent(q) = d } }

\* path.glob("*.gguf"): the entries of the directory whose name matches.
glob_gguf(dir) ==
    LET d == walk(<<>>, dir).path IN
    { Append(dir, name(q)) : q \in { q \in DOMAIN Disk :
          q # <<>> /\ parent(q) = d /\ fnmatch_gguf(name(q)) } }

\* a < b for strings: by code point, a proper prefix first.
RECURSIVE less(_, _)
less(a, b) ==
    IF b = <<>> THEN FALSE
    ELSE IF a = <<>> THEN TRUE
    ELSE IF Head(a) # Head(b) THEN Head(a) < Head(b)
    ELSE less(Tail(a), Tail(b))

\* sorted(paths, key=lambda f: f.name); the names in one directory differ.
RECURSIVE sorted(_)
sorted(paths) ==
    IF paths = {} THEN <<>>
    ELSE LET first == CHOOSE p \in paths :
                 \A q \in paths \ {p} : less(Codes[name(p)], Codes[name(q)])
         IN  <<first>> \o sorted(paths \ {first})

(***************************************************************************)
(* State.                                                                  *)
(***************************************************************************)
VARIABLES
    rev,        \* the revision of the program that is running
    self,       \* the fields of the LlamaTUI object
    ui_pc,      \* position of run(): "loop" (top of the while), "getch",
                \* "starting" (in start_server, after Popen), "sleep" (in
                \* check_schedule, at time.sleep), "exit"
    proc,       \* child -> "unborn" | "running" | "zombie" | "reaped"
    pipe,       \* child -> lines written to its stderr pipe and not read yet
    stdout_pipe,    \* child -> lines written to its stdout pipe and not read
                    \* yet
    written,    \* child -> number of lines it has written (MaxWrites once
                \* it has exited: it writes no more)
    threads,    \* reader thread of the n-th start: [pc, stream, line]
    now,        \* the wall clock, a member of Clock
    cmd,        \* argv of the last Popen call, <<>> before the first
    settings_file,  \* the dictionary pickled in the settings file
    last,       \* the supervisor call made by the last step (history)
    stopped_ok, \* a stop succeeded and no start has spawned a child since
                \* (history)
    attempts    \* start_server calls check_schedule has made since the
                \* clock last changed (history)

vars == <<rev, self, ui_pc, proc, pipe, stdout_pipe, written, threads, now, cmd,
          settings_file, last, stopped_ok, attempts>>

\* What the settings file holds: nothing (no file), bytes pickle cannot load,
\* or a pickled dictionary.
NoKeys == [k \in {} |-> 0]
Absent == [kind |-> "absent", dict |-> NoKeys]
Corrupt == [kind |-> "corrupt", dict |-> NoKeys]
Pickled(d) == [kind |-> "dict", dict |-> d]

\* The configuration __init__ builds before load_settings overlays the record.
DefaultConfig ==
    [ model_dir |-> <<"models">>, backend |-> "CPU", host_ip |-> "0.0.0.0",
      port |-> "8080", allow_lan |-> FALSE, gpu_layers |-> 0, n_threads |-> 4,
      context_size |-> 4096, schedule_time |-> <<>>, schedule_active |-> FALSE,
      llama_server_dir |-> "/bin" ]

\* The object after __init__, given the persisted configuration and the
\* models that refresh_file_list found.
NewTUI(cfg, files) ==
    [ running |-> TRUE, server_process |-> None, running_model_path |-> NoPath,
      log_buffer |-> <<>>, log_thread |-> None,
      show_log |-> FALSE, show_nvidia_smi |-> FALSE,
      model_dir |-> cfg.model_dir, backend |-> cfg.backend,
      host_ip |-> cfg.host_ip, port |-> cfg.port, allow_lan |-> cfg.allow_lan,
      gpu_layers |-> cfg.gpu_layers, n_threads |-> cfg.n_threads,
      context_size |-> cfg.context_size, schedule_time |-> cfg.schedule_time,
      schedule_active |-> cfg.schedule_active,
      llama_server_dir |-> cfg.llama_server_dir,
      active_field |-> 0, selected_file_idx |-> 0, file_offset |-> 0,
      files |-> files, msg_log |-> "" ]

NoThread == [pc |-> "unstarted", stream |-> None, line |-> <<>>]

Spawned == Cardinality({c \in Children : proc[c] # "unborn"})
Started == Cardinality({c \in Children : threads[c].pc # "unstarted"})

\* What a call is compared with afterwards: the fields before the call.
Snapshot(s, spawned, started) ==
    [ server_process |-> s.server_process,
      running_model_path |-> s.running_model_path,
      log_buffer |-> s.log_buffer, log_thread |-> s.log_thread,
      config |-> [k \in DOMAIN DefaultConfig |-> s[k]],
      selected |-> IF s.files = <<>> \/ s.selected_file_idx >= Len(s.files)
                   THEN NoPath ELSE s.files[s.selected_file_idx + 1],
      files |-> s.files, selected_file_idx |-> s.selected_file_idx,
      file_offset |-> s.file_offset,
      spawned |-> spawned, started |-> started,
      \* what the host knew of the recorded child when the call was made
      child |-> IF s.server_process = None THEN "none"
                ELSE proc[s.server_process] ]
\* at: the clock when the call was made; file: the settings file then;
\* typed: what the user typed at the prompt of the call; arg: the text the
\* prompt returned; written_ok: FALSE when the host refused the write of the
\* settings file the call asked for; calls: the system calls kill_server made;
\* exited: how the process ended, once main() has returned.
NotExited == [status |-> 0 - 1, stdout |-> "", stderr |-> ""]
NoCall == [op |-> "none", via |-> "none", ret |-> "", how |-> "none", e |-> "",
           signalled |-> FALSE, early |-> FALSE, at |-> <<>>, file |-> Absent,
           typed |-> <<>>, arg |-> <<>>, written_ok |-> TRUE, calls |-> <<>>,
           exited |-> NotExited,
           pre |-> Snapshot(NewTUI(DefaultConfig, <<>>), 0, 0)]

(***************************************************************************)
(* start_server: the launch command.                                       *)
(***************************************************************************)
\* b.gguf is a symbolic link: Path.resolve() follows it, str(path) does not.
Symlinks == [p \in {"/models/b.gguf"} |-> "/store/b.gguf"]
resolve(p) == IF p \in DOMAIN Symlinks THEN Symlinks[p] ELSE p
join(dir, leaf) == dir \o "/" \o leaf

\* Wrong on purpose: a command that passes the configured host whatever
\* allow_lan says.
BuildCmd_always_host(s) ==
    LET llama_server_path == join(s.llama_server_dir, LLAMA_SERVER_BIN)
        model_path == resolve(s.files[s.selected_file_idx + 1])
    IN  <<llama_server_path, "-m", model_path, "--port", s.port,
          "--host", s.host_ip>>
        \o (IF (s.backend = "CUDA" \/ s.backend = "VULKAN") /\ s.gpu_layers > 0
            THEN <<"-ngl", Text(str(s.gpu_layers))>> ELSE <<>>)
        \o (IF s.n_threads > 0 THEN <<"-t", Text(str(s.n_threads))>> ELSE <<>>)
        \o (IF s.context_size > 0 THEN <<"-c", Text(str(s.context_size))>>
            ELSE <<>>)

\* src/llamatui.py, start_server, lines 237-262.
BuildCmd(s) ==
    LET llama_server_path == join(s.llama_server_dir, LLAMA_SERVER_BIN)
        model_path == resolve(s.files[s.selected_file_idx + 1])
    IN  <<llama_server_path, "-m", model_path, "--port", s.port>>
        \o (IF s.allow_lan THEN <<"--host", s.host_ip>>
            ELSE <<"--host", "127.0.0.1">>)
        \o (IF (s.backend = "CUDA" \/ s.backend = "VULKAN") /\ s.gpu_layers > 0
            THEN <<"-ngl", Text(str(s.gpu_layers))>> ELSE <<>>)
        \o (IF s.n_threads > 0 THEN <<"-t", Text(str(s.n_threads))>> ELSE <<>>)
        \o (IF s.context_size > 0 THEN <<"-c", Text(str(s.context_size))>>
            ELSE <<>>)

\* src/9.py, start_server, lines 243-264 (src/6.py builds the same command).
BuildCmd9(s) ==
    LET llama_server_path == join(s.llama_server_dir, LLAMA_SERVER_BIN)
        model_path == resolve(s.files[s.selected_file_idx + 1])
    IN  <<llama_server_path, "-m", model_path, "--port", s.port>>
        \o (IF s.allow_lan THEN <<"--host", s.host_ip>>
            ELSE <<"--host", "127.0.0.1">>)
        \o (IF s.backend = "CUDA" THEN <<"-ngl", "99">>
            ELSE IF s.backend = "VULKAN" THEN <<"-ngl", "99">> ELSE <<>>)

LaunchCmd(r, s) == IF r = "llamatui" THEN BuildCmd(s) ELSE BuildCmd9(s)

(***************************************************************************)
(* start_server, in two parts: up to the assignment of the Popen object    *)
(* (lines 232-271), and from the reset of the log buffer to the return     *)
(* (lines 273-277); the reader threads run in between.  c is the Popen     *)
(* object a successful spawn returns; bin_is_file, popen and thread_start  *)
(* are what the host answers: os.path.exists/isfile, subprocess.Popen      *)
(* ("ok", "FileNotFoundError", "OSError") and Thread.start() (FALSE:       *)
(* RuntimeError, no thread made).                                          *)
(***************************************************************************)
MsgAlready == "Server already running. Press 'K' first."
MsgNoModels == "No models found in current directory."
MsgNotFile == "Error: not found or is not a file."
MsgServing == "SERVING"
MsgNoBinary == "Error: binary not found."
MsgPopenError == "Error: OSError"
MsgThreadError == "Error: can't start new thread"
StartErrors == {MsgNoModels, MsgNotFile, MsgNoBinary, MsgPopenError,
                MsgThreadError}
PopenOutcomes == {"ok", "FileNotFoundError", "OSError"}

\* A return before any child exists.
Refused(s, msg) == [self |-> s, ret |-> msg, spawn |-> FALSE, cmd |-> <<>>]

\* Lines 234-271 and 278-281: what follows the `already running` check.
start_checked(r, s, c, bin_is_file, popen) ==
    IF s.files = <<>> THEN Refused(s, MsgNoModels)
    ELSE IF ~bin_is_file THEN Refused(s, MsgNotFile)
    ELSE IF popen = "FileNotFoundError" THEN Refused(s, MsgNoBinary)
    ELSE IF popen = "OSError" THEN Refused(s, MsgPopenError)
    ELSE [self |-> [s EXCEPT !.server_process = c], ret |-> "",
          spawn |-> TRUE, cmd |-> LaunchCmd(r, s)]

\* Wrong on purpose: start_server without the test of lines 232-233.
start_server_unguarded(r, s, c, bin_is_file, popen) ==
    start_checked(r, s, c, bin_is_file, popen)

\* Lines 232-271 (and the handlers of lines 278-281 for Popen).
start_server(r, s, c, bin_is_file, popen) ==
    IF s.server_process # None THEN Refused(s, MsgAlready)
    ELSE start_checked(r, s, c, bin_is_file, popen)

\* Lines 273-277 (and the handler of lines 280-281 for Thread.start).
start_log_capture(s, thread_start) ==
    LET current_file_obj == s.files[s.selected_file_idx + 1]
        s1 == [s EXCEPT !.log_buffer = <<>>, !.log_thread = s.server_process]
    IN  IF ~thread_start
        THEN [self |-> s1, ret |-> MsgThreadError, thread |-> FALSE]
        ELSE [self |-> [s1 EXCEPT !.running_model_path = current_file_obj],
              ret |-> MsgServing, thread |-> TRUE]

(***************************************************************************)
(* kill_server.  how is what the host lets happen: "group" (killpg and     *)
(* wait succeed), "fallback" (they raise e, terminate and wait succeed),   *)
(* "fail" (they raise e, and terminate or wait raises too).                *)
(***************************************************************************)
MsgStopped == "Server stopped and cache cleared."
MsgFallback == "Server stopped (fallback)."
MsgNoServer == "No server running."
ErrStopping(e) == "Error stopping: " \o e
StopReasons == {"ProcessLookupError", "TimeoutExpired"}
StopErrors == {ErrStopping(e) : e \in StopReasons}

\* Wrong on purpose: a stop that forgets the child although both paths failed.
kill_server_forgets(s, how, e) ==
    LET cleared == [s EXCEPT !.server_process = None,
                             !.running_model_path = NoPath,
                             !.log_buffer = <<>>]
    IN
    IF s.server_process # None
    THEN [self |-> cleared,
          ret |-> IF how = "group" THEN MsgStopped
                  ELSE IF how = "fallback" THEN MsgFallback ELSE ErrStopping(e),
          signalled |-> TRUE, calls |-> <<"killpg", "wait">>]
    ELSE [self |-> s, ret |-> MsgNoServer, signalled |-> FALSE,
          calls |-> <<>>]

\* Wrong on purpose: a stop that clears the log although no server runs.
kill_server_clears_idle(s, how, e) ==
    LET cleared == [s EXCEPT !.server_process = None,
                             !.running_model_path = NoPath,
                             !.log_buffer = <<>>]
    IN
    IF s.server_process # None
    THEN IF how = "group"
         THEN [self |-> cleared, ret |-> MsgStopped, signalled |-> TRUE,
               calls |-> <<"killpg", "wait">>]
         ELSE IF how = "fallback"
         THEN [self |-> cleared, ret |-> MsgFallback, signalled |-> TRUE,
               calls |-> <<"killpg", "wait", "terminate", "wait">>]
         ELSE [self |-> s, ret |-> ErrStopping(e), signalled |-> TRUE,
               calls |-> <<"killpg", "wait", "terminate", "wait">>]
    ELSE [self |-> cleared, ret |-> MsgNoServer, signalled |-> FALSE,
          calls |-> <<>>]

\* Wrong on purpose: a stop that terminates the process before it signals
\* the group.
kill_server_terminates_first(s, how, e) ==
    LET cleared == [s EXCEPT !.server_process = None,
                             !.running_model_path = NoPath,
                             !.log_buffer = <<>>]
    IN
    IF s.server_process # None
    THEN IF how = "group"
         THEN [self |-> cleared, ret |-> MsgStopped, signalled |-> TRUE,
               calls |-> <<"terminate", "wait">>]
         ELSE IF how = "fallback"
         THEN [self |-> cleared, ret |-> MsgFallback, signalled |-> TRUE,
               calls |-> <<"terminate", "wait", "killpg", "wait">>]
         ELSE [self |-> s, ret |-> ErrStopping(e), signalled |-> TRUE,
               calls |-> <<"terminate", "wait", "killpg", "wait">>]
    ELSE [self |-> s, ret |-> MsgNoServer, signalled |-> FALSE,
          calls |-> <<>>]

\* Wrong on purpose: a fallback that reports the stop and keeps the record
\* of the child.
kill_server_fallback_keeps(s, how, e) ==
    LET cleared == [s EXCEPT !.server_process = None,
                             !.running_model_path = NoPath,
                             !.log_buffer = <<>>]
    IN
    IF s.server_process # None
    THEN IF how = "group"
         THEN [self |-> cleared, ret |-> MsgStopped, signalled |-> TRUE,
               calls |-> <<"killpg", "wait">>]
         ELSE IF how = "fallback"
         THEN [self |-> s, ret |-> MsgFallback, signalled |-> TRUE,
               calls |-> <<"killpg", "wait", "terminate", "wait">>]
         ELSE [self |-> s, ret |-> ErrStopping(e), signalled |-> TRUE,
               calls |-> <<"killpg", "wait", "terminate", "wait">>]
    ELSE [self |-> s, ret |-> MsgNoServer, signalled |-> FALSE,
          calls |-> <<>>]

\* The calls of the try block of lines 211-213 up to the one that raised e:
\* os.killpg raises ProcessLookupError, wait(timeout=5) TimeoutExpired.
TryGroup(e) ==
    IF e = "ProcessLookupError" THEN <<"killpg">> ELSE <<"killpg", "wait">>
\* The calls of the handler of lines 220-222.
TryTerminate == <<"terminate", "wait">>

kill_server(s, how, e) ==
    LET cleared == [s EXCEPT !.server_process = None,
                             !.running_model_path = NoPath,
                             !.log_buffer = <<>>]
    IN
    IF s.server_process # None
    THEN IF how = "group"
         THEN [self |-> cleared, ret |-> MsgStopped, signalled |-> TRUE,
               calls |-> <<"killpg", "wait">>]
         ELSE IF how = "fallback"
         THEN [self |-> cleared, ret |-> MsgFallback, signalled |-> TRUE,
               calls |-> TryGroup(e) \o TryTerminate]
         ELSE [self |-> s, ret |-> ErrStopping(e), signalled |-> TRUE,
               calls |-> TryGroup(e) \o TryTerminate]
    ELSE [self |-> s, ret |-> MsgNoServer, signalled |-> FALSE,
          calls |-> <<>>]

\* The outcomes the host can produce for the recorded child.  A running child
\* may die on the signal or ignore it; a child that has already exited is a
\* zombie until wait() reaps it, and wait() on it returns at once, so one of
\* the two paths succeeds.
KillOutcomes(s) ==
    IF s.server_process = None THEN {"group"}
    ELSE IF proc[s.server_process] = "running"
    THEN {"group", "fallback", "fail"}
    ELSE {"group", "fallback"}

(***************************************************************************)
(* Init: the state after LlamaTUI.__init__.  load_settings has overlaid    *)
(* the record a previous run saved; refresh_file_list has listed the       *)
(* model directory (sorted by name).                                       *)
(***************************************************************************)
PersistedConfigs ==
    { [DefaultConfig EXCEPT !.model_dir = dir] : dir \in {<<"models">>, <<"empty">>} }
    \cup
    { [DefaultConfig EXCEPT !.schedule_active = TRUE, !.schedule_time = Clock[1],
                            !.backend = "CUDA", !.model_dir = dir] :
          dir \in {<<"models">>, <<"empty">>} }

\* Wrong on purpose: a save that writes nothing.
save_nothing(r, s, file, written_ok) == file

\* The keys save_settings pickles: the whole config dictionary in
\* llamatui.py (lines 135-142), eight named attributes in 9.py (lines 132-150).
SavedKeys(r) ==
    IF r = "llamatui" THEN DOMAIN DefaultConfig
    ELSE {"model_dir", "backend", "host_ip", "port", "allow_lan",
          "schedule_time", "schedule_active", "llama_server_dir"}
\* save_settings; written is whether open() and pickle.dump() succeed (the
\* exception is swallowed).
save_settings(r, s, file, written_ok) ==
    IF written_ok THEN Pickled([k \in SavedKeys(r) |-> s[k]]) ELSE file

MsgLoaded == "Settings loaded from config.dat."
MsgLoadError == "Error loading settings. Using defaults."
MsgNoSettings == "No persistent settings found. Using defaults."

\* Wrong on purpose: a load that takes a key from the record only when the
\* record holds all of them.
load_all_or_nothing(r, s, file) ==
    IF file.kind = "dict"
    THEN [k \in DOMAIN s |->
            IF k = "msg_log" THEN MsgLoaded
            ELSE IF k \in SavedKeys(r) /\ SavedKeys(r) \subseteq DOMAIN file.dict
            THEN file.dict[k] ELSE s[k]]
    ELSE IF file.kind = "corrupt" THEN [s EXCEPT !.msg_log = MsgLoadError]
    ELSE [s EXCEPT !.msg_log = MsgNoSettings]

\* Wrong on purpose: a load that keeps the defaults whatever the record holds.
load_keeps_defaults(r, s, file) ==
    IF file.kind = "dict" THEN [s EXCEPT !.msg_log = MsgLoaded]
    ELSE IF file.kind = "corrupt" THEN [s EXCEPT !.msg_log = MsgLoadError]
    ELSE [s EXCEPT !.msg_log = MsgNoSettings]

\* load_settings up to its last line: llamatui.py, lines 115-131 (9.py, lines
\* 104-126).  settings.get(key, default) for each key of the configuration.
load(r, s, file) ==
    IF file.kind = "dict"
    THEN [k \in DOMAIN s |->
            IF k = "msg_log" THEN MsgLoaded
            ELSE IF k \in SavedKeys(r) /\ k \in DOMAIN file.dict
            THEN file.dict[k] ELSE s[k]]
    ELSE IF file.kind = "corrupt" THEN [s EXCEPT !.msg_log = MsgLoadError]
    ELSE [s EXCEPT !.msg_log = MsgNoSettings]

\* load_settings: llamatui.py saves whatever it has loaded (line 133); 9.py
\* saves only when there is no file (lines 129-130).
load_settings(r, s, file, written_ok) ==
    LET s1 == load(r, s, file) IN
    [ self |-> s1,
      file |-> IF r = "llamatui" \/ file.kind = "absent"
               THEN save_settings(r, s1, file, written_ok) ELSE file ]

MsgDirNotFound(dir) == "Error: Directory not found: " \o PathStr(dir)

\* refresh_file_list, lines 145-153.
refresh_file_list(s) ==
    LET path == s.model_dir
        found == sorted({f \in glob_gguf(path) : is_file(f)})
    IN  IF exists(path) /\ isdir(path)
        THEN [s EXCEPT !.files = [i \in 1..Len(found) |-> PathStr(found[i])],
                       !.selected_file_idx = 0, !.file_offset = 0]
        ELSE [s EXCEPT !.files = <<>>, !.msg_log = MsgDirNotFound(path)]

\* LlamaTUI.__init__, lines 30-90: the defaults, load_settings, the cursor,
\* refresh_file_list.
LlamaTUI(r, file, written_ok) ==
    LET l == load_settings(r, NewTUI(DefaultConfig, <<>>), file, written_ok)
    IN  [self |-> refresh_file_list(l.self), file |-> l.file]

InitOf(revisions) ==
    /\ rev \in revisions
    /\ \E cfg \in PersistedConfigs :
         LET o == LlamaTUI(rev, Pickled([k \in SavedKeys(rev) |-> cfg[k]]), TRUE)
         IN  self = o.self /\ settings_file = o.file
    /\ ui_pc = "loop"
    /\ proc = [c \in Children |-> "unborn"]
    /\ pipe = [c \in Children |-> <<>>]
    /\ stdout_pipe = [c \in Children |-> <<>>]
    /\ written = [c \in Children |-> 0]
    /\ threads = [c \in Children |-> NoThread]
    /\ now \in {Clock[i] : i \in 1..Len(Clock)}
    /\ cmd = <<>>
    /\ last = NoCall
    /\ stopped_ok = FALSE
    /\ attempts = 0

\* llamatui.py is the program; InitAny starts any of the revisions.
Init == InitOf({"llamatui"})
InitAny == InitOf(Revisions)

(***************************************************************************)
(* The supervisor calls as steps of the controller thread.                 *)
(***************************************************************************)
\* Wrong on purpose: a window that follows the cursor upwards only.
scroll_up_only(s) ==
    IF s.selected_file_idx < s.file_offset
    THEN [s EXCEPT !.file_offset = s.selected_file_idx]
    ELSE s

\* Lines 414-418: the drawing code keeps the cursor inside the window of
\* max_items rows.
scroll(s) ==
    IF s.selected_file_idx < s.file_offset
    THEN [s EXCEPT !.file_offset = s.selected_file_idx]
    ELSE IF s.selected_file_idx >= s.file_offset + max_items
    THEN [s EXCEPT !.file_offset = s.selected_file_idx - max_items + 1]
    ELSE s

\* A step that is no return of a supervisor call: it keeps the record of a
\* start_server call that is under way and drops any other.
Quiet == last' = IF last.op = "starting" THEN last ELSE NoCall

\* self.start_server() up to line 271, called for `via` ("S", "sched"), and
\* msg_log = <the returned message> when it returns there; back is where
\* run() goes on after the return, slept whether the caller sleeps 60 s
\* first.
CallStart(via, back, slept) ==
    \E bin_is_file \in BOOLEAN, popen \in PopenOutcomes :
      LET c == Spawned + 1
          \* check_schedule is called once the screen is drawn
          drawn == IF via = "sched" THEN scroll(self) ELSE self
          r == start_server(rev, drawn, c, bin_is_file, popen)
          call == [op |-> "start_server", via |-> via, ret |-> r.ret,
                   how |-> IF ~bin_is_file THEN "no binary" ELSE popen,
                   e |-> "", signalled |-> FALSE, early |-> FALSE,
                   at |-> now, file |-> settings_file, typed |-> <<>>,
                   arg |-> <<>>, written_ok |-> TRUE, calls |-> <<>>,
                   exited |-> NotExited,
                   pre |-> Snapshot(self, Spawned, Started)]
      IN  /\ r.spawn => c <= MaxStarts
          /\ IF r.spawn
             THEN /\ self' = r.self
                  /\ proc' = [proc EXCEPT ![c] = "running"]
                  /\ cmd' = r.cmd
                  /\ last' = [call EXCEPT !.op = "starting"]
                  /\ stopped_ok' = FALSE
                  /\ ui_pc' = "starting"
             ELSE /\ self' = [r.self EXCEPT !.msg_log = r.ret]
                  /\ last' = call
                  /\ ui_pc' = IF slept THEN "sleep" ELSE back
                  /\ UNCHANGED <<proc, cmd, stopped_ok>>
          /\ attempts' = IF via = "sched" THEN attempts + 1 ELSE attempts
          /\ UNCHANGED <<rev, pipe, stdout_pipe, written, threads, now, settings_file>>

\* start_server from line 273 to its return, and what its caller does next.
StartLogCapture ==
    /\ ui_pc = "starting"
    /\ \E thread_start \in BOOLEAN :
         LET r == start_log_capture(self, thread_start)
             c == self.server_process
         IN  /\ self' = [r.self EXCEPT !.msg_log = r.ret]
             /\ threads' = IF r.thread
                           THEN [threads EXCEPT ![c] = [pc |-> "check",
                                     stream |-> None, line |-> <<>>]]
                           ELSE threads
             /\ last' = [last EXCEPT !.op = "start_server", !.ret = r.ret,
                                     !.how = IF thread_start THEN "ok"
                                             ELSE "RuntimeError"]
    /\ ui_pc' = IF last.via = "sched" THEN "sleep" ELSE "loop"
    /\ UNCHANGED <<rev, proc, pipe, stdout_pipe, written, now, cmd, settings_file,
                   stopped_ok, attempts>>

\* self.kill_server(), called for `via`: "K" stores the returned message in
\* msg_log (line 525); "Q" drops it, saves the settings and clears running
\* (lines 520-522).
CallKill(via) ==
    \E how \in KillOutcomes(self), e \in StopReasons,
       written_ok \in (IF via = "Q" THEN BOOLEAN ELSE {FALSE}) :
      LET r == kill_server(self, how, e)
          c == self.server_process
      IN  /\ self' = IF via = "Q" THEN [r.self EXCEPT !.running = FALSE]
                     ELSE [r.self EXCEPT !.msg_log = r.ret]
          /\ proc' = IF c # None /\ how \in {"group", "fallback"}
                     THEN [proc EXCEPT ![c] = "reaped"] ELSE proc
          /\ written' = IF c # None /\ how \in {"group", "fallback"}
                        THEN [written EXCEPT ![c] = MaxWrites] ELSE written
          /\ last' = [op |-> "kill_server", via |-> via, ret |-> r.ret,
                      how |-> IF c = None THEN "none" ELSE how,
                      e |-> IF c # None /\ how = "fail" THEN e ELSE "",
                      signalled |-> r.signalled, early |-> FALSE,
                      at |-> now, file |-> settings_file, typed |-> <<>>,
                      arg |-> <<>>,
                      written_ok |-> (via = "Q") => written_ok,
                      calls |-> r.calls, exited |-> NotExited,
                      pre |-> Snapshot(self, Spawned, Started)]
          /\ stopped_ok' = IF r.ret \in {MsgStopped, MsgFallback} THEN TRUE
                           ELSE stopped_ok
          /\ settings_file' = save_settings(rev, r.self, settings_file,
                                            written_ok)
          /\ UNCHANGED <<rev, pipe, stdout_pipe, threads, cmd, now, attempts>>

NoSupervisorCall ==
    /\ Quiet
    /\ UNCHANGED <<rev, proc, pipe, stdout_pipe, written, threads, cmd, settings_file,
                   stopped_ok, attempts>>

(***************************************************************************)
(* run(): one pass of the while loop is a view step (modal views), or      *)
(* the main screen with check_schedule followed by getch and the dispatch  *)
(* of the key.                                                             *)
(***************************************************************************)
AtLoop == ui_pc = "loop" /\ self.running
AtMain == AtLoop /\ ~self.show_nvidia_smi /\ ~self.show_log

\* The record of a pass of the loop that ends at a `continue` before the
\* main screen is drawn: which branch took it, the clock and the fields then.
Pass(via) ==
    [NoCall EXCEPT !.op = "pass", !.via = via, !.at = now,
                   !.pre = Snapshot(self, Spawned, Started)]
PassFrame ==
    UNCHANGED <<rev, ui_pc, proc, pipe, stdout_pipe, written, threads, now, cmd,
                settings_file, stopped_ok, attempts>>

\* Lines 362-374: the NVIDIA-SMI view; any key closes it.
SmiView ==
    /\ AtLoop /\ self.show_nvidia_smi
    /\ \E key \in BOOLEAN :
         self' = IF key THEN [self EXCEPT !.show_nvidia_smi = FALSE] ELSE self
    /\ last' = Pass("smi")
    /\ PassFrame

\* Wrong on purpose: a log view that takes the key for Q as well.
LogView_quits ==
    /\ AtLoop /\ ~self.show_nvidia_smi /\ self.show_log
    /\ \E key \in BOOLEAN :
         self' = IF key THEN [self EXCEPT !.show_log = FALSE, !.running = FALSE]
                 ELSE self
    /\ last' = Pass("log")
    /\ PassFrame

\* Lines 376-388: the log view; any key closes it.
LogView ==
    /\ AtLoop /\ ~self.show_nvidia_smi /\ self.show_log
    /\ \E key \in BOOLEAN :
         self' = IF key THEN [self EXCEPT !.show_log = FALSE] ELSE self
    /\ last' = Pass("log")
    /\ PassFrame

\* Lines 391-397: the terminal is smaller than 80x20 (h and w are what
\* getmaxyx answered); the pass ends after the warning.
WindowTooSmall ==
    /\ AtMain
    /\ UNCHANGED self
    /\ last' = Pass("small")
    /\ PassFrame

\* Wrong on purpose: a scheduler that does not look at server_process.
ScheduleDue_ignores_server ==
    /\ self.schedule_active
    /\ now = self.schedule_time

\* check_schedule, lines 313-318.
ScheduleDue ==
    /\ self.schedule_active /\ self.server_process = None
    /\ now = self.schedule_time

\* Lines 390-511 when check_schedule starts the server (line 317).
MainScheduled ==
    /\ AtMain /\ ScheduleDue
    /\ CallStart("sched", "getch", TRUE)

\* Wrong on purpose: a sleep that returns at once.
sleep_returns_at_once(t) == t

\* time.sleep(60) of line 318: the clock when it returns.
sleep60(t) == NextMinute(t)

\* Line 318: check_schedule sleeps after the call, then run() goes on to
\* getch.
ScheduleSleep ==
    /\ ui_pc = "sleep"
    /\ now' = sleep60(now)
    /\ attempts' = IF now' # now THEN 0 ELSE attempts
    /\ ui_pc' = "getch"
    /\ Quiet
    /\ UNCHANGED <<rev, self, proc, pipe, stdout_pipe, written, threads, cmd,
                   settings_file, stopped_ok>>

\* Lines 390-511 when check_schedule does nothing.
MainIdle ==
    /\ AtMain /\ ~ScheduleDue
    /\ self' = scroll(self)
    /\ NoSupervisorCall
    /\ ui_pc' = "getch"
    /\ UNCHANGED now

\* Lines 519-522.
KeyQuit ==
    /\ ui_pc = "getch"
    /\ CallKill("Q")
    /\ ui_pc' = "exit"

\* Lines 524-525.
KeyKill ==
    /\ ui_pc = "getch"
    /\ CallKill("K")
    /\ ui_pc' = "loop"

\* Lines 527-528.
KeyStart ==
    /\ ui_pc = "getch"
    /\ CallStart("S", "loop", FALSE)

MsgNotRunning == "Server is not running. Start it first."
\* Wrong on purpose: a V key that opens the log view whether or not a server
\* is recorded.
KeyViewLog_unguarded ==
    /\ ui_pc = "getch"
    /\ self' = [self EXCEPT !.show_log = TRUE]
    /\ last' = [Pass("V") EXCEPT !.op = "view_log"]
    /\ ui_pc' = "loop"
    /\ UNCHANGED <<rev, proc, pipe, stdout_pipe, written, threads, now, cmd, settings_file,
                   stopped_ok, attempts>>

\* Lines 530-534.
KeyViewLog ==
    /\ ui_pc = "getch"
    /\ self' = IF self.server_process # None
               THEN [self EXCEPT !.show_log = TRUE]
               ELSE [self EXCEPT !.msg_log = MsgNotRunning]
    /\ last' = [Pass("V") EXCEPT !.op = "view_log",
                                 !.ret = IF self.server_process # None THEN ""
                                         ELSE MsgNotRunning]
    /\ ui_pc' = "loop"
    /\ UNCHANGED <<rev, proc, pipe, stdout_pipe, written, threads, now, cmd, settings_file,
                   stopped_ok, attempts>>

\* Lines 536-537 (llamatui.py only: the other revisions have no such key).
KeyNvidia ==
    /\ ui_pc = "getch" /\ rev = "llamatui"
    /\ self' = [self EXCEPT !.show_nvidia_smi = TRUE]
    /\ NoSupervisorCall
    /\ ui_pc' = "loop"
    /\ UNCHANGED now

\* Lines 552-554.
KeyUp ==
    /\ ui_pc = "getch"
    /\ self' = IF self.active_field = 0 /\ self.selected_file_idx > 0
               THEN [self EXCEPT !.selected_file_idx = @ - 1] ELSE self
    /\ NoSupervisorCall
    /\ ui_pc' = "loop"
    /\ UNCHANGED now

\* Wrong on purpose: a Down key that does not look at the length of the list.
KeyDown_unbounded ==
    /\ ui_pc = "getch"
    /\ self' = IF self.active_field = 0
               THEN [self EXCEPT !.selected_file_idx = @ + 1] ELSE self
    /\ NoSupervisorCall
    /\ ui_pc' = "loop"
    /\ UNCHANGED now

\* Lines 556-558.
KeyDown ==
    /\ ui_pc = "getch"
    /\ self' = IF self.active_field = 0
                  /\ self.selected_file_idx < Len(self.files) - 1
               THEN [self EXCEPT !.selected_file_idx = @ + 1] ELSE self
    /\ NoSupervisorCall
    /\ ui_pc' = "loop"
    /\ UNCHANGED now

\* Tab, lines 548-550: eleven fields in llamatui.py, eight in 9.py (line 587).
NumFields(r) == IF r = "llamatui" THEN 11 ELSE 8
KeyTab ==
    /\ ui_pc = "getch"
    /\ self' = [self EXCEPT !.active_field = (@ + 1) % NumFields(rev)]
    /\ NoSupervisorCall
    /\ ui_pc' = "loop"
    /\ UNCHANGED now

\* What an Enter branch leaves alone.
EditFrame ==
    /\ ui_pc' = "loop"
    /\ UNCHANGED <<rev, proc, pipe, stdout_pipe, written, threads, now, cmd, stopped_ok,
                   attempts>>

\* The record of an edit: what was typed, whether the host let the settings
\* file be written, the message the edit left, what happened, the text the
\* prompt returned.
Edit(op, typed, written_ok, ret, how, arg) ==
    [op |-> op, via |-> "Enter", ret |-> ret, how |-> how, e |-> "",
     signalled |-> FALSE, early |-> FALSE, at |-> now, file |-> settings_file,
     typed |-> typed, arg |-> arg, written_ok |-> written_ok, calls |-> <<>>,
     exited |-> NotExited, pre |-> Snapshot(self, Spawned, Started)]

\* What a handler leaves alone whether it returns or raises.
HandlerFrame ==
    UNCHANGED <<rev, proc, pipe, stdout_pipe, written, threads, now, cmd, stopped_ok,
                attempts>>

\* Enter on field 2, lines 571-575 (9.py, lines 611-616): the next backend.
\* modes.index raises ValueError when the backend is none of the three, and
\* nothing between there and main() catches it: run() ends, main() prints
\* "Fatal Error" (lines 664-668) and the process ends without kill_server.
KeyEnterBackend ==
    /\ ui_pc = "getch" /\ self.active_field = 2
    /\ \E written_ok \in BOOLEAN :
         IF \E i \in 1..Len(Backends) : Backends[i] = self.backend
         THEN LET curr_idx == CHOOSE i \in 1..Len(Backends) :
                                  Backends[i] = self.backend
                  s1 == [self EXCEPT !.backend =
                                        Backends[(curr_idx % Len(Backends)) + 1]]
              IN  /\ self' = s1
                  /\ settings_file' = save_settings(rev, s1, settings_file,
                                                    written_ok)
                  /\ last' = Edit("backend", <<>>, written_ok, "", "set", <<>>)
                  /\ ui_pc' = "loop"
         ELSE /\ last' = Edit("backend", <<>>, TRUE, "", "ValueError", <<>>)
              /\ ui_pc' = "crashed"
              /\ UNCHANGED <<self, settings_file>>
    /\ HandlerFrame

\* What the user types at the GPU layers prompt: nothing, 32, 0, -1, x.
GpuLayersTyped == {<<>>, <<51, 50>>, <<48>>, <<45, 49>>, <<120>>}

\* Enter on field 3 of llamatui.py, lines 577-588: the number of GPU layers.
KeyEnterGpuLayers ==
    /\ ui_pc = "getch" /\ rev = "llamatui" /\ self.active_field = 3
    /\ \E typed \in GpuLayersTyped, written_ok \in BOOLEAN :
         LET val == input_string(typed, str(self.gpu_layers))
             new_ngl == int(val)
             s1 == [self EXCEPT !.gpu_layers = new_ngl.val,
                                !.msg_log = "GPU Layers set."]
         IN  IF ~new_ngl.ok
             THEN /\ self' = [self EXCEPT !.msg_log = "Invalid number format."]
                  /\ UNCHANGED settings_file
                  /\ last' = Edit("gpu_layers", typed, TRUE,
                                  "Invalid number format.", "invalid", val)
             ELSE IF new_ngl.val >= 0
             THEN /\ self' = s1
                  /\ settings_file' = save_settings(rev, s1, settings_file,
                                                    written_ok)
                  /\ last' = Edit("gpu_layers", typed, written_ok, s1.msg_log,
                                  "set", val)
             ELSE /\ self' = [self EXCEPT !.msg_log = "Value must be 0 or greater."]
                  /\ UNCHANGED settings_file
                  /\ last' = Edit("gpu_layers", typed, TRUE,
                                  "Value must be 0 or greater.", "invalid", val)
    /\ EditFrame

MsgDirUpdated == "Directory updated."
MsgInvalidDir == "Invalid directory path."
\* What the user types at the models prompt: /models, /empty, /nowhere (no
\* such entry), /models/c.txt (a file), /models/link/../z (link points to
\* /store/sub, so the kernel finds /store/z).
DirsTyped ==
    { <<"models">>, <<"empty">>, <<"nowhere">>, <<"models", "c.txt">>,
      <<"models", "link", "..", "z">> }

\* Enter on field 1, lines 561-569: the model directory.  input_string
\* returns what was typed, or self.model_dir when nothing was.
KeyEnterModelDir ==
    /\ ui_pc = "getch" /\ self.active_field = 1
    /\ \E typed \in DirsTyped \cup {<<>>}, written_ok \in BOOLEAN :
         LET new_dir == IF typed # <<>> THEN typed ELSE self.model_dir IN
         IF isdir(new_dir)
         THEN LET s1 == refresh_file_list(
                            [self EXCEPT !.model_dir = abspath(new_dir)])
                  s2 == [s1 EXCEPT !.msg_log = MsgDirUpdated]
              IN  /\ self' = s2
                  /\ settings_file' = save_settings(rev, s2, settings_file,
                                                    written_ok)
                  /\ last' = Edit("refresh_file_list", typed, written_ok,
                                  s1.msg_log,
                                  IF isdir(s1.model_dir) THEN "ok"
                                  ELSE "missing", new_dir)
         ELSE /\ self' = [self EXCEPT !.msg_log = MsgInvalidDir]
              /\ UNCHANGED settings_file
              /\ last' = Edit("model_dir", typed, TRUE, MsgInvalidDir,
                              "invalid", new_dir)
    /\ EditFrame

MsgInvalidNumber == "Invalid number format."
\* What the user types at the threads prompt: nothing, 2, 0.
ThreadsTyped == {<<>>, <<50>>, <<48>>}

\* Enter on field 4 of llamatui.py, lines 590-601: the number of threads.
KeyEnterThreads ==
    /\ ui_pc = "getch" /\ rev = "llamatui" /\ self.active_field = 4
    /\ \E typed \in ThreadsTyped, written_ok \in BOOLEAN :
         LET val == input_string(typed, str(self.n_threads))
             new_threads == int(val)
             s1 == [self EXCEPT !.n_threads = new_threads.val,
                                !.msg_log = "CPU Threads set."]
         IN  IF ~new_threads.ok
             THEN /\ self' = [self EXCEPT !.msg_log = MsgInvalidNumber]
                  /\ UNCHANGED settings_file
                  /\ last' = Edit("n_threads", typed, TRUE, MsgInvalidNumber,
                                  "invalid", val)
             ELSE IF new_threads.val >= 1
             THEN /\ self' = s1
                  /\ settings_file' = save_settings(rev, s1, settings_file,
                                                    written_ok)
                  /\ last' = Edit("n_threads", typed, written_ok, s1.msg_log,
                                  "set", val)
             ELSE /\ self' = [self EXCEPT !.msg_log = "Value must be 1 or greater."]
                  /\ UNCHANGED settings_file
                  /\ last' = Edit("n_threads", typed, TRUE,
                                  "Value must be 1 or greater.",
                                  "invalid", val)
    /\ EditFrame

\* What the user types at the context prompt: nothing, 512, 511.
ContextTyped == {<<>>, <<53, 49, 50>>, <<53, 49, 49>>}

\* Wrong on purpose: a context prompt that stores the number before it looks
\* at its range.
KeyEnterContext_stores_first ==
    /\ ui_pc = "getch" /\ rev = "llamatui" /\ self.active_field = 5
    /\ \E typed \in ContextTyped, written_ok \in BOOLEAN :
         LET val == input_string(typed, str(self.context_size))
             new_context == int(val)
             s1 == [self EXCEPT !.context_size = new_context.val,
                                !.msg_log = "Context Size set."]
         IN  IF ~new_context.ok
             THEN /\ self' = [self EXCEPT !.msg_log = MsgInvalidNumber]
                  /\ UNCHANGED settings_file
                  /\ last' = Edit("context_size", typed, TRUE,
                                  MsgInvalidNumber, "invalid", val)
             ELSE IF new_context.val >= 512
             THEN /\ self' = s1
                  /\ settings_file' = save_settings(rev, s1, settings_file,
                                                    written_ok)
                  /\ last' = Edit("context_size", typed, written_ok,
                                  s1.msg_log, "set", val)
             ELSE /\ self' = [s1 EXCEPT !.msg_log = "Value must be at least 512."]
                  /\ UNCHANGED settings_file
                  /\ last' = Edit("context_size", typed, TRUE,
                                  "Value must be at least 512.", "invalid", val)
    /\ EditFrame

\* Enter on field 5 of llamatui.py, lines 603-614: the context size.
KeyEnterContext ==
    /\ ui_pc = "getch" /\ rev = "llamatui" /\ self.active_field = 5
    /\ \E typed \in ContextTyped, written_ok \in BOOLEAN :
         LET val == input_string(typed, str(self.context_size))
             new_context == int(val)
             s1 == [self EXCEPT !.context_size = new_context.val,
                                !.msg_log = "Context Size set."]
         IN  IF ~new_context.ok
             THEN /\ self' = [self EXCEPT !.msg_log = MsgInvalidNumber]
                  /\ UNCHANGED settings_file
                  /\ last' = Edit("context_size", typed, TRUE,
                                  MsgInvalidNumber, "invalid",
                                  val)
             ELSE IF new_context.val >= 512
             THEN /\ self' = s1
                  /\ settings_file' = save_settings(rev, s1, settings_file,
                                                    written_ok)
                  /\ last' = Edit("context_size", typed, written_ok,
                                  s1.msg_log, "set", val)
             ELSE /\ self' = [self EXCEPT !.msg_log = "Value must be at least 512."]
                  /\ UNCHANGED settings_file
                  /\ last' = Edit("context_size", typed, TRUE,
                                  "Value must be at least 512.",
                                  "invalid", val)
    /\ EditFrame

MsgScheduled == "Scheduled"
MsgInvalidTime == "Invalid time format. Use HH:MM"
MsgScheduleOff == "Schedule disabled."
\* What the user types at the time prompt: nothing (the prompt offers 08:00),
\* 25:61, 8:0.
TimesTyped == {<<>>, <<50, 53, 58, 54, 49>>, <<56, 58, 48>>}
\* The schedule is field 9 in llamatui.py and field 6 in 9.py.
ScheduleField(r) == IF r = "llamatui" THEN 9 ELSE 6

\* Enter on the schedule field, lines 628-642 (9.py, lines 633-650).
KeyEnterSchedule ==
    /\ ui_pc = "getch" /\ self.active_field = ScheduleField(rev)
    /\ \E typed \in TimesTyped, written_ok \in BOOLEAN :
         IF self.schedule_active
         THEN LET s1 == [self EXCEPT !.schedule_active = FALSE,
                                     !.msg_log = MsgScheduleOff]
              IN  /\ self' = s1
                  /\ settings_file' = save_settings(rev, s1, settings_file,
                                                    written_ok)
                  /\ last' = Edit("schedule_off", <<>>, written_ok,
                                  MsgScheduleOff, "set", <<>>)
         ELSE LET t == input_string(typed, Clock[1])
                  s1 == [self EXCEPT !.schedule_time = t,
                                     !.schedule_active = TRUE,
                                     !.msg_log = MsgScheduled]
              IN  IF strptime_HM(t)
                  THEN /\ self' = s1
                       /\ settings_file' = save_settings(rev, s1, settings_file,
                                                         written_ok)
                       /\ last' = Edit("schedule_on", typed, written_ok,
                                       MsgScheduled, "set", t)
                  ELSE /\ self' = [self EXCEPT !.msg_log = MsgInvalidTime]
                       /\ UNCHANGED settings_file
                       /\ last' = Edit("schedule_on", typed, TRUE,
                                       MsgInvalidTime, "invalid",
                                       t)
    /\ EditFrame

\* The characters of a host address or a port, as one string.
NetChr == [b \in DigitCodes \cup {46} |-> IF b = 46 THEN "." ELSE Chr[b]]
RECURSIVE NetText(_)
NetText(cs) == IF cs = <<>> THEN "" ELSE NetChr[Head(cs)] \o NetText(Tail(cs))

\* What the user types at the Host IP prompt: nothing, a blank, 10.0.0.5.
HostsTyped == {<<>>, <<32>>, <<49, 48, 46, 48, 46, 48, 46, 53>>}

\* Enter on field 6 of llamatui.py, lines 616-618 (field 3 of 9.py, lines
\* 618-621): the host address, taken as typed.
HostField(r) == IF r = "llamatui" THEN 6 ELSE 3
KeyEnterHostIp ==
    /\ ui_pc = "getch" /\ self.active_field = HostField(rev)
    /\ \E typed \in HostsTyped, written_ok \in BOOLEAN :
         LET box == input_string(typed, <<>>)
             val == IF box = <<>> THEN self.host_ip ELSE NetText(box)
             s1 == [self EXCEPT !.host_ip = val]
         IN  /\ self' = s1
             /\ settings_file' = save_settings(rev, s1, settings_file,
                                               written_ok)
             /\ last' = Edit("host_ip", typed, written_ok, "", "set", box)
    /\ EditFrame

\* What the user types at the Port prompt: nothing, 9090.
PortsTyped == {<<>>, <<57, 48, 57, 48>>}

\* Enter on field 7 of llamatui.py, lines 620-622 (field 4 of 9.py, lines
\* 623-626): the port, taken as typed.
PortField(r) == IF r = "llamatui" THEN 7 ELSE 4
KeyEnterPort ==
    /\ ui_pc = "getch" /\ self.active_field = PortField(rev)
    /\ \E typed \in PortsTyped, written_ok \in BOOLEAN :
         LET box == input_string(typed, <<>>)
             val == IF box = <<>> THEN self.port ELSE NetText(box)
             s1 == [self EXCEPT !.port = val]
         IN  /\ self' = s1
             /\ settings_file' = save_settings(rev, s1, settings_file,
                                               written_ok)
             /\ last' = Edit("port", typed, written_ok, "", "set", box)
    /\ EditFrame

\* Enter on field 8 of llamatui.py, lines 624-626 (field 5 of 9.py, lines
\* 628-631): the LAN switch.
LanField(r) == IF r = "llamatui" THEN 8 ELSE 5
KeyEnterLan ==
    /\ ui_pc = "getch" /\ self.active_field = LanField(rev)
    /\ \E written_ok \in BOOLEAN :
         LET s1 == [self EXCEPT !.allow_lan = ~self.allow_lan]
         IN  /\ self' = s1
             /\ settings_file' = save_settings(rev, s1, settings_file,
                                               written_ok)
             /\ last' = Edit("allow_lan", <<>>, written_ok, "", "set", <<>>)
    /\ EditFrame

MsgServerDirUpdated(dir) == "Llama-server directory updated to: " \o dir
\* What the user types at the llama-server directory prompt: nothing,
\* /store, /nowhere (no such entry).
ServerDirsTyped == {<<>>, <<"store">>, <<"nowhere">>}
\* The path a directory string names.
PathOf(dir) ==
    CHOOSE p \in DOMAIN Disk \cup ServerDirsTyped : PathStr(p) = dir

\* Lines 540-546 and 645-651: the prompt for the llama-server directory, for
\* the key `via` ("D", "Enter").
ServerDirPrompt(via) ==
    \E typed \in ServerDirsTyped, written_ok \in BOOLEAN :
      LET new_server_dir == IF typed # <<>> THEN typed
                            ELSE PathOf(self.llama_server_dir)
          dir == PathStr(abspath(new_server_dir))
          s1 == [self EXCEPT !.llama_server_dir = dir,
                             !.msg_log = MsgServerDirUpdated(dir)]
      IN  IF isdir(new_server_dir)
          THEN /\ self' = s1
               /\ settings_file' = save_settings(rev, s1, settings_file,
                                                 written_ok)
               /\ last' = [Edit("llama_server_dir", typed, written_ok,
                                s1.msg_log, "set", new_server_dir)
                           EXCEPT !.via = via]
          ELSE /\ self' = [self EXCEPT !.msg_log = MsgInvalidDir]
               /\ UNCHANGED settings_file
               /\ last' = [Edit("llama_server_dir", typed, TRUE, MsgInvalidDir,
                                "invalid", new_server_dir)
                           EXCEPT !.via = via]

\* Enter on field 10 of llamatui.py, lines 644-651 (field 7 of 9.py, lines
\* 652-660).
ServerDirField(r) == IF r = "llamatui" THEN 10 ELSE 7
KeyEnterServerDir ==
    /\ ui_pc = "getch" /\ self.active_field = ServerDirField(rev)
    /\ ServerDirPrompt("Enter")
    /\ EditFrame

\* The D key, lines 539-546, whatever field is selected.
KeyServerDir ==
    /\ ui_pc = "getch"
    /\ ServerDirPrompt("D")
    /\ EditFrame

\* The program is run again after it has ended: __init__ on the settings
\* file the last run left.  The reader threads ended with the process.
Restart ==
    /\ ui_pc = "exit"
    /\ \E written_ok \in BOOLEAN :
         LET o == LlamaTUI(rev, settings_file, written_ok)
         IN  /\ self' = o.self
             /\ settings_file' = o.file
             /\ last' = [Edit("load_settings", <<>>, written_ok,
                         o.self.msg_log,
                              IF written_ok THEN "written" ELSE "unwritable",
                              <<>>) EXCEPT !.via = "restart"]
    /\ ui_pc' = "loop"
    /\ threads' = [c \in Children |-> NoThread]
    /\ attempts' = 0
    /\ UNCHANGED <<rev, proc, pipe, stdout_pipe, written, now, cmd, stopped_ok>>

\* main(), lines 662-671: what curses.wrapper raised ("none" when run()
\* returned) decides what is printed; print() writes to standard output, and
\* main() returns in every case, so the interpreter exits with status 0.
main(raised) ==
    IF raised \in {"none", "KeyboardInterrupt"}
    THEN [status |-> 0, stdout |-> "", stderr |-> ""]
    ELSE [status |-> 0, stdout |-> "Fatal Error: " \o raised, stderr |-> ""]

\* run() has returned or has raised: main() ends the process.
MainReturns ==
    /\ ui_pc \in {"exit", "crashed"}
    /\ last' = [NoCall EXCEPT
                  !.op = "main",
                  !.via = IF ui_pc = "exit" THEN "Q" ELSE last.op,
                  !.e = IF ui_pc = "exit" THEN "none" ELSE last.how,
                  !.exited = main(IF ui_pc = "exit" THEN "none" ELSE last.how)]
    /\ ui_pc' = "ended"
    /\ UNCHANGED <<rev, self, proc, pipe, stdout_pipe, written, threads, now, cmd,
                   settings_file, stopped_ok, attempts>>

\* getch() returned -1 or a key no branch handles.
KeyNone ==
    /\ ui_pc = "getch"
    /\ NoSupervisorCall
    /\ ui_pc' = "loop"
    /\ UNCHANGED <<self, now>>

(***************************************************************************)
(* The host: the clock and the children.                                   *)
(***************************************************************************)
\* A minute passes.  Only check_schedule reads the clock, and only while the
\* schedule is active.
ClockTick ==
    /\ self.schedule_active /\ ui_pc # "exit"
    /\ now' = NextMinute(now)
    /\ attempts' = 0
    /\ Quiet
    /\ UNCHANGED <<rev, self, ui_pc, proc, pipe, stdout_pipe, written, threads, cmd,
                   settings_file, stopped_ok>>

ChildWrite(c) ==
    /\ proc[c] = "running" /\ written[c] < MaxWrites
    /\ pipe[c] = <<>>        \* the pipe holds one line: the writer waits
    /\ pipe' = [pipe EXCEPT ![c] = Append(@, Script(c)[written[c] + 1])]
    /\ written' = [written EXCEPT ![c] = @ + 1]
    /\ Quiet
    /\ UNCHANGED <<rev, self, ui_pc, proc, stdout_pipe, threads, now, cmd,
                   settings_file, stopped_ok, attempts>>

\* The child exits on its own; nobody has waited for it yet.
ChildExit(c) ==
    /\ proc[c] = "running"
    /\ proc' = [proc EXCEPT ![c] = "zombie"]
    /\ written' = [written EXCEPT ![c] = MaxWrites]
    /\ Quiet
    /\ UNCHANGED <<rev, self, ui_pc, pipe, stdout_pipe, threads, now, cmd, settings_file,
                   stopped_ok, attempts>>

\* The child writes a line to its standard output, which Popen connected to
\* a pipe of its own (stdout=subprocess.PIPE, line 268).  As for stderr the
\* pipe holds one line: the writer waits while it is full.
ChildWriteStdout(c) ==
    /\ proc[c] = "running"
    /\ stdout_pipe[c] = <<>>
    /\ stdout_pipe' = [stdout_pipe EXCEPT ![c] = Append(@, TextLine(c, 1))]
    /\ Quiet
    /\ UNCHANGED <<rev, self, ui_pc, proc, pipe, written, threads, now, cmd,
                   settings_file, stopped_ok, attempts>>

(***************************************************************************)
(* _log_reader_thread, lines 194-204, one step per statement.              *)
(***************************************************************************)
\* The readers are daemon threads: they end with the process.
ThreadFrame ==
    /\ ui_pc # "exit"
    /\ UNCHANGED <<rev, ui_pc, proc, written, now, cmd, settings_file,
                   stopped_ok, attempts>>

\* Line 195: if self.server_process and self.server_process.stderr
ThreadCheck(t) ==
    /\ threads[t].pc = "check"
    /\ threads' = [threads EXCEPT ![t].pc =
                      IF self.server_process # None THEN "bind" ELSE "done"]
    /\ ThreadFrame /\ Quiet
    /\ UNCHANGED <<self, pipe, stdout_pipe>>

\* Line 196: iter(self.server_process.stderr.readline, b'') reads the field
\* again; on None the attribute access raises and the thread ends.
ThreadBind(t) ==
    /\ threads[t].pc = "bind"
    /\ threads' = IF self.server_process # None
                  THEN [threads EXCEPT ![t].pc = "readline",
                                       ![t].stream = self.server_process]
                  ELSE [threads EXCEPT ![t].pc = "done"]
    /\ ThreadFrame /\ Quiet
    /\ UNCHANGED <<self, pipe, stdout_pipe>>

\* Line 196: readline() returns the next line, or b'' at end of stream (the
\* pipe is empty and its writer has exited); otherwise it blocks.
ThreadReadline(t) ==
    LET c == threads[t].stream IN
    /\ threads[t].pc = "readline"
    /\ IF pipe[c] # <<>>
       THEN /\ threads' = [threads EXCEPT ![t].pc = "append",
                                          ![t].line = Head(pipe[c])]
            /\ pipe' = [pipe EXCEPT ![c] = Tail(@)]
       ELSE /\ proc[c] # "running"
            /\ threads' = [threads EXCEPT ![t].pc = "done",
                                          ![t].stream = None]
            /\ UNCHANGED pipe
    /\ ThreadFrame /\ Quiet
    /\ UNCHANGED <<self, stdout_pipe>>

\* Wrong on purpose: a reader that ends on a line that does not decode.
ThreadAppend_strict(t) ==
    LET line_str == strip(decode(threads[t].line)) IN
    /\ threads[t].pc = "append"
    /\ IF \E i \in 1..Len(threads[t].line) : threads[t].line[i] >= 128
       THEN /\ threads' = [threads EXCEPT ![t].pc = "done", ![t].line = <<>>]
            /\ UNCHANGED self
       ELSE IF line_str # <<>>
       THEN /\ self' = [self EXCEPT !.log_buffer = Append(@, line_str)]
            /\ threads' = [threads EXCEPT ![t].pc = "len", ![t].line = <<>>]
       ELSE /\ threads' = [threads EXCEPT ![t].pc = "readline",
                                          ![t].line = <<>>]
            /\ UNCHANGED self
    /\ last' = IF last.op # "starting" THEN NoCall
               ELSE IF line_str # <<>> /\ threads[t].stream = self.server_process
               THEN [last EXCEPT !.early = TRUE] ELSE last
    /\ ThreadFrame
    /\ UNCHANGED <<pipe, stdout_pipe>>

\* Lines 198-200: decode, strip, append when not empty.
ThreadAppend(t) ==
    LET line_str == strip(decode(threads[t].line)) IN
    /\ threads[t].pc = "append"
    /\ IF line_str # <<>>
       THEN /\ self' = [self EXCEPT !.log_buffer = Append(@, line_str)]
            /\ threads' = [threads EXCEPT ![t].pc = "len", ![t].line = <<>>]
       ELSE /\ threads' = [threads EXCEPT ![t].pc = "readline",
                                          ![t].line = <<>>]
            /\ UNCHANGED self
    \* history: a line of the child being started is in the buffer before
    \* start_server has reset it
    /\ last' = IF last.op # "starting" THEN NoCall
               ELSE IF line_str # <<>> /\ threads[t].stream = self.server_process
               THEN [last EXCEPT !.early = TRUE] ELSE last
    /\ ThreadFrame
    /\ UNCHANGED <<pipe, stdout_pipe>>

\* Line 201: if len(self.log_buffer) > self.log_max_lines
ThreadLen(t) ==
    /\ threads[t].pc = "len"
    /\ threads' = [threads EXCEPT ![t].pc =
                      IF Len(self.log_buffer) > log_max_lines THEN "pop"
                      ELSE "readline"]
    /\ ThreadFrame /\ Quiet
    /\ UNCHANGED <<self, pipe, stdout_pipe>>

\* Line 202: self.log_buffer.pop(0); on an empty list the IndexError is
\* swallowed by the except of line 203.
ThreadPop(t) ==
    /\ threads[t].pc = "pop"
    /\ self' = IF self.log_buffer # <<>>
               THEN [self EXCEPT !.log_buffer = pop0(@)] ELSE self
    /\ threads' = [threads EXCEPT ![t].pc = "readline"]
    /\ ThreadFrame /\ Quiet
    /\ UNCHANGED <<pipe, stdout_pipe>>

LogReader(t) ==
    \/ ThreadCheck(t) \/ ThreadBind(t) \/ ThreadReadline(t)
    \/ ThreadAppend(t) \/ ThreadLen(t) \/ ThreadPop(t)

(***************************************************************************)
(* The supervisor and the log capture.                                     *)
(***************************************************************************)
Supervisor ==
    \/ MainScheduled \/ ScheduleSleep \/ MainIdle
    \/ KeyKill \/ KeyStart \/ StartLogCapture \/ KeyQuit \/ KeyNone

Next ==
    \/ Supervisor
    \/ ClockTick
    \/ \E c \in Children : ChildWrite(c) \/ ChildExit(c)
    \/ \E t \in Children : LogReader(t)

Spec == Init /\ [][Next]_vars

\* The controller loop keeps turning (getch does not block: nodelay) and the
\* reader threads are scheduled; which key arrives, what the child does and
\* the clock are free.
FairSpec ==
    /\ Spec
    /\ WF_vars(MainScheduled \/ MainIdle)
    /\ WF_vars(KeyKill \/ KeyStart \/ KeyQuit \/ KeyNone)
    /\ WF_vars(StartLogCapture)
    /\ WF_vars(ScheduleSleep)
    /\ \A t \in Children : WF_vars(LogReader(t))

\* Editing the backend and the GPU layers between launches, in any of the
\* revisions, with no schedule; the child is silent and the readers idle, for
\* the launch command depends on the configuration alone.
InitLaunch == InitAny /\ ~self.schedule_active
NextLaunch ==
    \/ MainIdle
    \/ KeyStart \/ StartLogCapture \/ KeyKill
    \/ KeyTab \/ KeyEnterBackend \/ KeyEnterGpuLayers
SpecLaunch == InitLaunch /\ [][NextLaunch]_vars

\* The launch command as a function of the configuration: llamatui.py
\* started on any of the records below, the models of /models listed; S and
\* K launch and stop.  load_settings takes the numbers as they are, so a
\* record may hold n_threads = 0 or context_size = 0.
CommandRecords ==
    { [DefaultConfig EXCEPT !.allow_lan = lan, !.host_ip = ip,
                            !.n_threads = nt, !.context_size = cs,
                            !.backend = be, !.gpu_layers = ngl] :
        lan \in BOOLEAN, ip \in {"0.0.0.0", "192.168.1.5"}, nt \in {0, 4},
        cs \in {0, 4096}, be \in {"CPU", "CUDA"}, ngl \in {0, 32} }
InitCommand ==
    /\ rev = "llamatui"
    /\ \E cfg \in CommandRecords :
         LET o == LlamaTUI(rev, Pickled(cfg), TRUE)
         IN  self = o.self /\ settings_file = o.file
    /\ ui_pc = "loop"
    /\ proc = [c \in Children |-> "unborn"]
    /\ pipe = [c \in Children |-> <<>>]
    /\ stdout_pipe = [c \in Children |-> <<>>]
    /\ written = [c \in Children |-> 0]
    /\ threads = [c \in Children |-> NoThread]
    /\ now = Clock[1]
    /\ cmd = <<>>
    /\ last = NoCall
    /\ stopped_ok = FALSE
    /\ attempts = 0
NextCommand == MainIdle \/ KeyStart \/ StartLogCapture \/ KeyKill
SpecCommand == InitCommand /\ [][NextCommand]_vars

\* The model list: llamatui.py with no schedule; Tab, the arrows and Enter
\* on the model directory.
InitRegistry == Init /\ ~self.schedule_active
NextRegistry == MainIdle \/ KeyTab \/ KeyUp \/ KeyDown \/ KeyEnterModelDir
SpecRegistry == InitRegistry /\ [][NextRegistry]_vars

\* The settings file a run may find: none, one that pickle cannot load, the
\* defaults, a record with one known key and one unknown key, a record
\* written by 9.py (eight keys), and a record whose numbers are out of range.
SettingsFiles ==
    { Absent, Corrupt, Pickled(DefaultConfig),
      Pickled([k \in {"backend", "theme"} |->
                  IF k = "backend" THEN "CUDA" ELSE "dark"]),
      Pickled([k \in SavedKeys("9") |->
                  [DefaultConfig EXCEPT !.schedule_active = TRUE,
                                        !.schedule_time = Clock[1],
                                        !.allow_lan = TRUE][k]]),
      Pickled([DefaultConfig EXCEPT !.context_size = 100, !.n_threads = 0,
                                    !.gpu_layers = 0 - 1]) }

\* The state after __init__ on any of these files; the clock reads 08:01 and
\* does not move, so no schedule is due.
InitSettingsOf(revisions) ==
    /\ rev \in revisions
    /\ \E file \in SettingsFiles, written_ok \in BOOLEAN :
         LET o == LlamaTUI(rev, file, written_ok)
         IN  /\ self = o.self
             /\ settings_file = o.file
             /\ last = [NoCall EXCEPT !.op = "load_settings", !.via = "init",
                                      !.ret = o.self.msg_log,
                                      !.how = IF written_ok THEN "written"
                                              ELSE "unwritable",
                                      !.at = Clock[2], !.file = file]
    /\ ui_pc = "loop"
    /\ proc = [c \in Children |-> "unborn"]
    /\ pipe = [c \in Children |-> <<>>]
    /\ stdout_pipe = [c \in Children |-> <<>>]
    /\ written = [c \in Children |-> 0]
    /\ threads = [c \in Children |-> NoThread]
    /\ now = Clock[2]
    /\ cmd = <<>>
    /\ stopped_ok = FALSE
    /\ attempts = 0
InitSettings == InitSettingsOf({"llamatui"})
InitSettingsAny == InitSettingsOf(Revisions)

\* Editing the threads, the context size and the schedule, quitting and
\* running again.
NextSettings ==
    \/ MainIdle \/ KeyTab
    \/ KeyEnterThreads \/ KeyEnterContext \/ KeyEnterSchedule
    \/ KeyQuit \/ Restart
SpecSettings == InitSettings /\ [][NextSettings]_vars
SpecSettingsAny == InitSettingsAny /\ [][NextSettings]_vars

\* The display modes: llamatui.py with the views, the window that may be too
\* small, the scheduler and the clock; the child is silent and may exit.
NextModes ==
    \/ MainScheduled \/ ScheduleSleep \/ MainIdle \/ WindowTooSmall
    \/ SmiView \/ LogView \/ KeyViewLog \/ KeyNvidia
    \/ KeyStart \/ StartLogCapture \/ KeyKill \/ KeyTab \/ KeyNone
    \/ ClockTick
    \/ \E c \in Children : ChildExit(c)
SpecModes == Init /\ [][NextModes]_vars

\* The fields: llamatui.py on the default record, Tab, Enter on every field
\* but the numbers, and the D key; the host may refuse any write of the
\* settings file.
InitEdits ==
    /\ Init /\ ~self.schedule_active /\ self.model_dir = <<"models">>
    /\ now = Clock[2]
NextEdits ==
    \/ MainIdle \/ KeyTab
    \/ KeyEnterBackend \/ KeyEnterHostIp \/ KeyEnterPort \/ KeyEnterLan
    \/ KeyEnterServerDir \/ KeyServerDir
SpecEdits == InitEdits /\ [][NextEdits]_vars

\* The prompts that validate what was typed: llamatui.py on the default
\* record, Tab and Enter on the model directory, the three numbers and the
\* server directory.
NextValidation ==
    \/ MainIdle \/ KeyTab
    \/ KeyEnterModelDir \/ KeyEnterGpuLayers \/ KeyEnterThreads
    \/ KeyEnterContext \/ KeyEnterServerDir
SpecValidation == InitEdits /\ [][NextValidation]_vars

\* The log capture alone: llamatui.py on the default record with no
\* schedule; S, K and Q, the children and the reader threads.  The loop
\* keeps turning and the reader threads are scheduled.
NextCapture ==
    \/ MainIdle \/ KeyStart \/ StartLogCapture \/ KeyKill \/ KeyQuit
    \/ KeyNone
    \/ \E c \in Children : ChildWrite(c) \/ ChildExit(c)
    \/ \E t \in Children : LogReader(t)
SpecCapture == InitEdits /\ [][NextCapture]_vars
FairCapture ==
    /\ SpecCapture
    /\ WF_vars(MainIdle)
    /\ WF_vars(KeyKill \/ KeyStart \/ KeyQuit \/ KeyNone)
    /\ WF_vars(StartLogCapture)
    /\ \A t \in Children : WF_vars(LogReader(t))

\* The log capture with both streams of the child: the children write to
\* their standard output as well.
NextStreams ==
    \/ MainIdle \/ KeyStart \/ StartLogCapture \/ KeyKill \/ KeyNone
    \/ \E c \in Children : ChildWrite(c) \/ ChildWriteStdout(c) \/ ChildExit(c)
    \/ \E t \in Children : LogReader(t)
SpecStreams == InitEdits /\ [][NextStreams]_vars
FairStreams ==
    /\ SpecStreams
    /\ WF_vars(MainIdle)
    /\ WF_vars(KeyKill \/ KeyStart \/ KeyNone)
    /\ WF_vars(StartLogCapture)
    /\ \A t \in Children : WF_vars(LogReader(t))

\* A settings file written by another program or edited by hand: pickle
\* loads it and load_settings takes its values as they are.
ForeignFiles ==
    { Pickled(DefaultConfig),
      Pickled([DefaultConfig EXCEPT !.backend = "ROCM"]),
      Pickled([k \in {"backend"} |-> "cpu"]) }
InitForeign ==
    /\ rev = "llamatui"
    /\ \E file \in ForeignFiles :
         LET o == LlamaTUI(rev, file, TRUE)
         IN  self = o.self /\ settings_file = o.file
    /\ ui_pc = "loop"
    /\ proc = [c \in Children |-> "unborn"]
    /\ pipe = [c \in Children |-> <<>>]
    /\ stdout_pipe = [c \in Children |-> <<>>]
    /\ written = [c \in Children |-> 0]
    /\ threads = [c \in Children |-> NoThread]
    /\ now = Clock[2]
    /\ cmd = <<>>
    /\ last = NoCall
    /\ stopped_ok = FALSE
    /\ attempts = 0
\* Every command of the main screen and of the views.
NextForeign ==
    \/ MainIdle \/ SmiView \/ LogView
    \/ KeyStart \/ StartLogCapture \/ KeyKill \/ KeyViewLog \/ KeyNvidia
    \/ KeyTab \/ KeyEnterBackend \/ KeyQuit \/ KeyNone
SpecForeign == InitForeign /\ [][NextForeign]_vars

\* The whole of main(): curses.wrapper or LlamaTUI.__init__ may raise
\* (curses.error: no terminal, no colours) before run() is entered; then
\* there is no loop and main() handles the exception.
InitMain ==
    \/ InitForeign
    \/ /\ rev = "llamatui"
       /\ self = NewTUI(DefaultConfig, <<>>)
       /\ settings_file \in ForeignFiles \cup {Absent}
       /\ ui_pc = "crashed"
       /\ proc = [c \in Children |-> "unborn"]
       /\ pipe = [c \in Children |-> <<>>]
       /\ stdout_pipe = [c \in Children |-> <<>>]
       /\ written = [c \in Children |-> 0]
       /\ threads = [c \in Children |-> NoThread]
       /\ now = Clock[2]
       /\ cmd = <<>>
       /\ last = [NoCall EXCEPT !.op = "__init__", !.via = "main",
                                !.how = "curses.error"]
       /\ stopped_ok = FALSE
       /\ attempts = 0
NextMain ==
    \/ MainIdle \/ KeyStart \/ StartLogCapture \/ KeyKill
    \/ KeyTab \/ KeyEnterBackend \/ KeyQuit \/ KeyNone
    \/ MainReturns
SpecMain == InitMain /\ [][NextMain]_vars

(***************************************************************************)
(* Properties of the supervisor.                                           *)
(***************************************************************************)
\* The fields a supervisor call must leave alone when it refuses or fails.
InstanceUnchanged ==
    /\ self.server_process = last.pre.server_process
    /\ self.running_model_path = last.pre.running_model_path
    /\ self.log_buffer = last.pre.log_buffer
    /\ self.log_thread = last.pre.log_thread
    /\ Spawned = last.pre.spawned
    /\ Started = last.pre.started
ConfigUnchanged ==
    \A k \in DOMAIN DefaultConfig : self[k] = last.pre.config[k]

\* C1: start_server called while server_process is set returns the `already
\* running` message, spawns no child and leaves server_process,
\* running_model_path, log_buffer and log_thread as they were; every child
\* that is alive or not yet reaped is the recorded one, so there is at most
\* one ServerInstance.
C1_SecondStartIsRefused ==
    /\ (last.op = "start_server" /\ last.pre.server_process # None) =>
           (last.ret = MsgAlready /\ InstanceUnchanged)
    /\ \A c \in Children :
           proc[c] \in {"running", "zombie"} => self.server_process = c

C1_Witness ==
    /\ last.op = "start_server" /\ last.via = "S"
    /\ last.pre.server_process # None
    /\ proc[last.pre.server_process] = "running"
    /\ last.pre.log_buffer # <<>>

\* C2: after a stop that succeeded, and until the next start that succeeds,
\* no ServerInstance is recorded and the LogBuffer is empty, whatever the
\* log reader threads do in between.
C2_StoppedMeansEmptyLog ==
    stopped_ok => (self.server_process = None /\ self.log_buffer = <<>>)

\* C3: when both stop paths fail, kill_server returns `Error stopping:` with
\* the reason of the first failure, and server_process, running_model_path
\* and log_buffer are exactly as before the call.
C3_FailedStopChangesNothing ==
    (last.op = "kill_server" /\ last.how = "fail") =>
        /\ last.ret = ErrStopping(last.e)
        /\ last.pre.server_process # None
        /\ InstanceUnchanged

C3_Witness ==
    /\ last.op = "kill_server" /\ last.how = "fail"
    /\ last.ret = ErrStopping("TimeoutExpired")
    /\ self.log_buffer # <<>> /\ self.running_model_path # NoPath

\* C4: whenever start_server returns an error (no models, binary missing,
\* Popen raising, the reader thread failing to start) no ServerInstance is
\* recorded and the state is exactly as before the call.
C4_FailedStartChangesNothing ==
    (last.op = "start_server" /\ last.ret \in StartErrors) =>
        (self.server_process = None /\ InstanceUnchanged)

\* C5: after start_server returned SERVING from a state with no
\* ServerInstance, exactly one instance is recorded and alive,
\* running_model_path is the model under the cursor, the LogBuffer has been
\* reset before the new child wrote anything, and exactly one reader thread
\* has been started, for this child.
C5_SuccessfulStart ==
    (last.op = "start_server" /\ last.ret = MsgServing) =>
        /\ last.pre.server_process = None
        /\ self.server_process # None
        /\ Spawned = last.pre.spawned + 1
        /\ self.server_process = Spawned
        /\ {c \in Children : proc[c] \in {"running", "zombie"}}
               = {self.server_process}
        /\ self.running_model_path = last.pre.selected
        /\ self.log_buffer = <<>> /\ ~last.early
        /\ Started = last.pre.started + 1
        /\ self.log_thread = self.server_process
        /\ threads[self.server_process].pc = "check"

\* C6: kill_server with no ServerInstance returns `No server running.`,
\* sends no signal and changes neither the supervisor state nor the
\* configuration; so does every repetition.
C6_StopWithoutServer ==
    (last.op = "kill_server" /\ last.pre.server_process = None) =>
        /\ last.ret = MsgNoServer
        /\ ~last.signalled
        /\ InstanceUnchanged /\ ConfigUnchanged

C6_Witness ==
    /\ last.op = "kill_server" /\ last.pre.server_process = None
    /\ last.ret = MsgNoServer
    /\ self.log_buffer # <<>>

\* C7: in every reachable state the LogBuffer holds at most log_max_lines
\* lines.
C7_LogBufferBounded == Len(self.log_buffer) <= log_max_lines

\* The lines read from the stream of child c so far (c has not exited).
LinesRead(c) == SubSeq(Script(c), 1, written[c] - Len(pipe[c]))
LastN(s, n) == SubSeq(s, Len(s) - n + 1, Len(s))
Min(a, b) == IF a < b THEN a ELSE b

\* C8: every line the reader reads is appended and eviction is FIFO: once
\* the reader of the running instance has dealt with the n lines it has
\* read, the LogBuffer is the last min(n, log_max_lines) of them, in order.
C8_BufferIsTailOfLinesRead ==
    \A c \in Children :
       (/\ self.server_process = c /\ proc[c] = "running"
        /\ threads[c].pc = "readline" /\ threads[c].stream = c
        /\ \A t \in Children \ {c} : threads[t].pc \in {"unstarted", "done"}) =>
          LET read == LinesRead(c)
              text == [i \in 1..Len(read) |-> strip(decode(read[i]))]
          IN  self.log_buffer = LastN(text, Min(Len(text), log_max_lines))

\* The program runs, and the recorded child has exited on its own and nobody
\* has reaped it.
ChildExited ==
    /\ ui_pc # "exit"
    /\ self.server_process # None /\ proc[self.server_process] = "zombie"

\* C9: when the child exits on its own, the supervisor eventually notices
\* (unless the program is quit first): the ServerInstance is destroyed (and
\* with it the LogBuffer cleared), so that a start is accepted again.
C9_ExitedChildIsNoticed ==
    ChildExited ~> (self.server_process = None \/ ui_pc = "exit")

\* C10: the launch command carries `-ngl <gpu_layers>` exactly when the
\* backend is CUDA or VULKAN and gpu_layers > 0, with the values the
\* configuration has at that launch; CPU never gets the option.
C10_NglFollowsGpuLayers ==
    (last.op = "start_server" /\ last.ret = MsgServing) =>
        LET cfg == last.pre.config
            wanted == cfg.backend \in {"CUDA", "VULKAN"} /\ cfg.gpu_layers > 0
        IN  IF wanted
            THEN \E i \in 1..(Len(cmd) - 1) :
                    cmd[i] = "-ngl" /\ cmd[i + 1] = Text(str(cfg.gpu_layers))
            ELSE \A i \in 1..Len(cmd) : cmd[i] # "-ngl"

\* The same of llamatui.py alone.
NglFollowsGpuLayersInLlamatui == rev = "llamatui" => C10_NglFollowsGpuLayers

(***************************************************************************)
(* Properties of the launch command.                                       *)
(***************************************************************************)
\* C11: the command of every launch is, in this order, the server binary,
\* -m and the model path, --port and the port, --host and the address
\* (127.0.0.1 when allow_lan is false, whatever host_ip says; host_ip when
\* allow_lan is true), an optional -ngl pair, -t and the thread count iff it
\* is positive, -c and the context size iff it is positive, and nothing else.
C11_LaunchCommand ==
    (last.op = "start_server" /\ last.ret = MsgServing) =>
        LET cfg == last.pre.config
            ip == IF cfg.allow_lan THEN cfg.host_ip ELSE "127.0.0.1"
            head == << cfg.llama_server_dir \o "/" \o "llama-server", "-m",
                       resolve(last.pre.selected), "--port", cfg.port,
                       "--host", ip >>
            t == IF cfg.n_threads > 0
                 THEN <<"-t", Text(str(cfg.n_threads))>> ELSE <<>>
            c == IF cfg.context_size > 0
                 THEN <<"-c", Text(str(cfg.context_size))>> ELSE <<>>
            rest == SubSeq(cmd, Len(head) + 1, Len(cmd))
            ngl == rest # <<>> /\ rest[1] = "-ngl"
        IN  /\ Len(cmd) >= Len(head)
            /\ SubSeq(cmd, 1, Len(head)) = head
            /\ ngl => Len(rest) >= 2
            /\ (IF ngl THEN SubSeq(rest, 3, Len(rest)) ELSE rest) = t \o c

C11_Witness ==
    /\ last.op = "start_server" /\ last.ret = MsgServing
    /\ ~last.pre.config.allow_lan /\ last.pre.config.host_ip = "192.168.1.5"
    /\ last.pre.config.n_threads = 0 /\ last.pre.config.context_size = 4096
    /\ cmd = <<"/bin/llama-server", "-m", "/models/a.gguf", "--port", "8080",
               "--host", "127.0.0.1", "-c", "4096">>

(***************************************************************************)
(* Properties of the settings.                                             *)
(***************************************************************************)
\* The configuration in memory.
Config == [k \in DOMAIN DefaultConfig |-> self[k]]

\* C12: a run ends by saving its configuration C; the next run loads the
\* record and saves again: when both writes succeed the configuration in
\* memory and the record in the file equal C field by field.
C12_SaveLoadSave ==
    (/\ last.op = "load_settings" /\ last.via = "restart"
     /\ last.how = "written"
     /\ last.file = Pickled(last.pre.config)) =>
        /\ Config = last.pre.config
        /\ settings_file = Pickled(last.pre.config)

C12_Witness ==
    /\ last.op = "load_settings" /\ last.via = "restart"
    /\ last.how = "written"
    /\ last.file = Pickled(last.pre.config)
    /\ last.pre.config.n_threads = 2 /\ last.pre.config.context_size = 512
    /\ last.pre.config.schedule_active
    /\ self.n_threads = 2 /\ self.context_size = 512

\* C13: after load_settings on a pickled record every field holds the value
\* of its key when the record has the key and the default when it has not;
\* a key that is no field is ignored and is not written back.
C13_MissingKeysGetDefaults ==
    (last.op = "load_settings" /\ last.file.kind = "dict") =>
        /\ \A k \in DOMAIN DefaultConfig :
               self[k] = IF k \in DOMAIN last.file.dict
                         THEN last.file.dict[k] ELSE DefaultConfig[k]
        /\ last.how = "written" =>
               DOMAIN settings_file.dict = DOMAIN DefaultConfig

C13_Witness ==
    /\ last.op = "load_settings" /\ last.file.kind = "dict"
    /\ DOMAIN last.file.dict = {"backend", "theme"}
    /\ self.backend = "CUDA" /\ self.port = "8080"
    /\ self.context_size = 4096

\* C14: when there is no settings file, or pickle cannot load it, and the
\* file can be written, load_settings leaves every field at its default and
\* the file holds the defaults afterwards.
C14_DefaultsArePersisted ==
    (/\ last.op = "load_settings" /\ last.file.kind \in {"absent", "corrupt"}
     /\ last.how = "written") =>
        /\ Config = DefaultConfig
        /\ settings_file = Pickled([k \in SavedKeys(rev) |-> DefaultConfig[k]])

\* The HH:MM grammar: two digits, a colon, two digits, at most 23 and 59.
IsHHMM(t) ==
    /\ Len(t) = 5 /\ t[3] = 58
    /\ \A i \in {1, 2, 4, 5} : t[i] \in DigitCodes
    /\ value(SubSeq(t, 1, 2)) <= 23 /\ value(SubSeq(t, 4, 5)) <= 59

\* C15: in every state context_size >= 512, n_threads >= 1, gpu_layers >= 0
\* and, when schedule_active holds, schedule_time is an HH:MM string.
C15_ConfigInvariant ==
    /\ self.context_size >= 512
    /\ self.n_threads >= 1
    /\ self.gpu_layers >= 0
    /\ self.schedule_active => IsHHMM(self.schedule_time)

\* C16: Enter on the schedule while it is off: a time outside the HH:MM
\* grammar leaves schedule_active false and schedule_time as it was, reports
\* the invalid format and saves nothing; a time inside the grammar becomes
\* schedule_time and schedule_active becomes true.
C16_ScheduleValidation ==
    last.op = "schedule_on" =>
        IF IsHHMM(last.arg)
        THEN self.schedule_time = last.arg /\ self.schedule_active
        ELSE /\ ~self.schedule_active
             /\ self.schedule_time = last.pre.config.schedule_time
             /\ self.msg_log = MsgInvalidTime
             /\ settings_file = last.file

\* What the HH:MM examples of the schedule do: 25:61 is refused, 08:00 is
\* taken.
ScheduleExamples ==
    /\ (last.op = "schedule_on" /\ last.arg = <<50, 53, 58, 54, 49>>) =>
           (~self.schedule_active /\ self.msg_log = MsgInvalidTime)
    /\ (last.op = "schedule_on" /\ last.arg = Clock[1]) =>
           (self.schedule_active /\ self.schedule_time = Clock[1])

(***************************************************************************)
(* Properties of the model list.                                           *)
(***************************************************************************)
\* C17: after a refresh that found the directory, files holds exactly the
\* entries of the directory that are files and whose name ends in .gguf,
\* each once, in increasing order of name (/models, which holds b.gguf,
\* a.gguf, c.txt and a directory d.gguf, gives a.gguf, b.gguf), and the
\* cursor and the scroll offset are zero.
C17_RefreshListsModels ==
    (last.op = "refresh_file_list" /\ last.how = "ok") =>
        LET dir == self.model_dir
            want == { q \in DOMAIN Disk :
                        /\ q # <<>> /\ parent(q) = walk(<<>>, dir).path
                        /\ fnmatch_gguf(name(q)) /\ is_file(q) }
            Shown(i, q) == self.files[i] = PathStr(Append(dir, name(q)))
        IN  /\ Len(self.files) = Cardinality(want)
            /\ \A i \in 1..Len(self.files) : \E q \in want : Shown(i, q)
            /\ \A i, j \in 1..Len(self.files) :
                   i < j => \E q, r \in want :
                               /\ Shown(i, q) /\ Shown(j, r)
                               /\ less(Codes[name(q)], Codes[name(r)])
            /\ dir = <<"models">> =>
                   self.files = <<"/models/a.gguf", "/models/b.gguf">>
            /\ self.selected_file_idx = 0 /\ self.file_offset = 0

C17_Witness ==
    /\ last.op = "refresh_file_list" /\ last.how = "ok"
    /\ last.pre.selected_file_idx = 1 /\ last.pre.file_offset = 1
    /\ last.arg = <<"models">>
    /\ self.files = <<"/models/a.gguf", "/models/b.gguf">>
    /\ self.selected_file_idx = 0 /\ self.file_offset = 0

\* C18: a refresh on a path that is no directory leaves an error message
\* and leaves files, the cursor and the scroll offset as they were, whether
\* Enter refuses the path or refresh_file_list does.
C18_FailedRefreshKeepsList ==
    (\/ last.op = "refresh_file_list" /\ last.how = "missing"
     \/ last.op = "model_dir" /\ last.how = "invalid") =>
        /\ self.files = last.pre.files
        /\ self.selected_file_idx = last.pre.selected_file_idx
        /\ self.file_offset = last.pre.file_offset
        /\ self.msg_log \in {MsgInvalidDir, MsgDirNotFound(self.model_dir)}

\* What Enter does with a path os.path.isdir refuses: nothing but the message.
RefusedDirKeepsList ==
    (last.op = "model_dir" /\ last.how = "invalid") =>
        /\ self.files = last.pre.files
        /\ self.selected_file_idx = last.pre.selected_file_idx
        /\ self.file_offset = last.pre.file_offset
        /\ self.model_dir = last.pre.config.model_dir
        /\ self.msg_log = MsgInvalidDir

(***************************************************************************)
(* Properties of the scheduler.                                            *)
(***************************************************************************)
\* C19: the pass of run() that calls check_schedule calls start_server
\* exactly when schedule_active is true, no server is recorded and the
\* clock reads schedule_time; in every other state it starts nothing and
\* changes no field (but the scroll offset, which the drawing code keeps).
C19_SchedulerActsOnlyWhenDue ==
    [][ LET due == /\ self.schedule_active
                   /\ self.server_process = None
                   /\ now = self.schedule_time
        IN  /\ attempts' > attempts => (due /\ ui_pc = "loop")
            /\ (ui_pc = "loop" /\ ui_pc' # "loop") =>
                  IF due
                  THEN /\ attempts' = attempts + 1
                       /\ last'.via = "sched"
                       /\ last'.op \in {"starting", "start_server"}
                  ELSE /\ \A k \in DOMAIN self \ {"file_offset"} :
                              self'[k] = self[k]
                       /\ proc' = proc /\ cmd' = cmd /\ now' = now
                       /\ attempts' = attempts
                       /\ ui_pc' = "getch" ]_vars

C19_Witness ==
    /\ last.op = "start_server" /\ last.via = "sched"
    /\ last.ret = MsgServing
    /\ last.pre.server_process = None
    /\ last.pre.config.schedule_active
    /\ last.at = last.pre.config.schedule_time

\* C20: check_schedule makes at most one call of start_server while the
\* clock reads the same minute: it sleeps 60 s after the call, whether the
\* call succeeded or failed.
C20_OneAttemptPerMinute == attempts <= 1

C20_Witness ==
    /\ last.op = "start_server" /\ last.via = "sched"
    /\ last.ret \in StartErrors
    /\ ui_pc = "sleep" /\ attempts = 1
    /\ now = self.schedule_time /\ self.server_process = None

(***************************************************************************)
(* Properties of the controller loop.                                      *)
(***************************************************************************)
\* The call or pass that `last` records was made when a schedule was due:
\* the schedule was active, no server was recorded, the clock read the
\* scheduled minute.
DueThen ==
    /\ last.pre.config.schedule_active
    /\ last.pre.server_process = None
    /\ last.at = last.pre.config.schedule_time

\* C21: every pass of the loop made while a schedule is due (no server
\* recorded, schedule active, the clock at the scheduled minute) compares
\* the clock and calls start_server, whatever is on the screen: no pass ends
\* before check_schedule in such a state.
C21_EveryIdlePassChecksSchedule == last.op = "pass" => ~DueThen

\* In the main screen a due schedule is acted on in the same pass.
MainPassChecksSchedule ==
    [][(AtMain /\ ScheduleDue /\ ui_pc' # "loop") =>
          attempts' = attempts + 1]_vars

\* The mode run() is in: it looks at show_nvidia_smi first (line 363), then
\* at show_log (line 377).
Mode(s) ==
    IF s.show_nvidia_smi THEN "TELEMETRY_VIEW"
    ELSE IF s.show_log THEN "LOG_VIEW" ELSE "MAIN"

ModeStep ==
    /\ ~(self'.show_log /\ self'.show_nvidia_smi)
    /\ self'.show_log => self'.server_process # None
    /\ Mode(self') # Mode(self) =>
          \/ /\ Mode(self) = "MAIN" /\ Mode(self') = "LOG_VIEW"
             /\ ui_pc = "getch" /\ self.server_process # None
          \/ /\ Mode(self) = "MAIN" /\ Mode(self') = "TELEMETRY_VIEW"
             /\ ui_pc = "getch"
          \/ /\ Mode(self) \in {"LOG_VIEW", "TELEMETRY_VIEW"}
             /\ Mode(self') = "MAIN"
    /\ last'.op = "view_log" /\ last' # last =>
          IF last'.pre.server_process # None
          THEN Mode(self') = "LOG_VIEW"
          ELSE Mode(self') = "MAIN" /\ self'.msg_log = MsgNotRunning

\* C22: the log and telemetry flags are never both set; the mode changes
\* only from MAIN to LOG_VIEW (V, and only with a server recorded: without
\* one the mode stays MAIN and a message is shown), from MAIN to
\* TELEMETRY_VIEW (N), and from either view back to MAIN; while the log view
\* is shown a server is recorded.
C22_ModeTransitions == [][ModeStep]_vars

C22_Witness ==
    /\ self.show_log /\ self.server_process # None
    /\ last.op = "pass" /\ last.via = "log"
    /\ proc[self.server_process] = "zombie"

\* The order of the fields in llamatui.py (lines 561-644): the field an edit
\* belongs to.
FieldOf(op) ==
    CASE op \in {"model_dir", "refresh_file_list"} -> 1
      [] op = "backend" -> 2
      [] op = "gpu_layers" -> 3
      [] op = "n_threads" -> 4
      [] op = "context_size" -> 5
      [] op = "host_ip" -> 6
      [] op = "port" -> 7
      [] op = "allow_lan" -> 8
      [] op \in {"schedule_on", "schedule_off"} -> 9
      [] op = "llama_server_dir" -> 10

FocusStep ==
    /\ self'.active_field \in 0..10
    /\ self'.active_field # self.active_field =>
          /\ ui_pc = "getch" /\ Mode(self) = "MAIN"
          /\ self'.active_field = (self.active_field + 1) % 11
    /\ ui_pc = "getch" /\ last'.via = "Enter" =>
          self.active_field = FieldOf(last'.op)

\* C23: the selector lies in 0..10; it changes only by Tab in the main
\* screen, to the next of the eleven fields (model list, model directory,
\* backend, GPU layers, threads, context size, host IP, port, LAN, schedule,
\* server directory) and from the last to the first; Enter edits the field
\* the selector designates in that order; the views leave the selector
\* alone.
C23_FocusOrder == [][FocusStep]_vars

\* The prompts of run(): the edits that open a line-edit prompt.
PromptOps ==
    {"model_dir", "refresh_file_list", "gpu_layers", "n_threads",
     "context_size", "host_ip", "port", "schedule_on", "llama_server_dir"}

\* C24: an empty submission at any line-edit prompt leaves the configuration
\* as it was before the prompt: the prompt returns the field's current
\* value.
C24_EmptySubmissionKeepsConfig ==
    (last.op \in PromptOps /\ last.typed = <<>>) =>
        Config = last.pre.config

\* The same for every prompt but the one of the schedule.
EmptySubmissionKeepsOtherFields ==
    (last.op \in PromptOps \ {"schedule_on"} /\ last.typed = <<>>) =>
        Config = last.pre.config

SaveStep ==
    (Config' # Config /\ last'.written_ok) =>
        settings_file' = Pickled(Config')

C26_QuitStopsAndSaves ==
    (ui_pc = "exit" /\ last.op = "kill_server" /\ last.via = "Q") =>
        /\ \A c \in Children : proc[c] # "running"
        /\ last.written_ok => settings_file = Pickled(Config)

\* What does hold after Q: the configuration is saved when the host lets it
\* be written.
QuitSaves ==
    (ui_pc = "exit" /\ last.op = "kill_server" /\ last.via = "Q"
       /\ last.written_ok) => settings_file = Pickled(Config)

\* The reader threads that have been started and have not returned.
Alive == {t \in Children : threads[t].pc \notin {"unstarted", "done"}}

\* C27: at most one reader thread is alive at any time: the thread of the
\* previous server has returned before the thread of the next one runs.
C27_OneLogCapture == Cardinality(Alive) <= 1

\* C28: kill_server signals the process group and waits first; it calls
\* terminate() on the process only after killpg or that wait has raised,
\* never when they succeeded and never before them.
C28_GroupThenTerminate ==
    (last.op = "kill_server" /\ last.signalled) =>
        LET calls == last.calls IN
        /\ calls # <<>> /\ calls[1] = "killpg"
        /\ last.how = "group" => calls = <<"killpg", "wait">>
        /\ \A i \in 1..Len(calls) :
              calls[i] = "terminate" =>
                  /\ last.how \in {"fallback", "fail"}
                  /\ i > 1 /\ \A j \in 1..(i - 1) : calls[j] \in {"killpg", "wait"}
                  /\ \A j \in (i + 1)..Len(calls) : calls[j] = "wait"

C28_Witness ==
    /\ last.op = "kill_server" /\ last.how = "fallback"
    /\ last.ret = MsgFallback
    /\ last.calls = <<"killpg", "wait", "terminate", "wait">>
    /\ self.server_process = None

\* C29: the controller never waits for anything but kill_server's bounded
\* wait: it is never inside the 60 s sleep of check_schedule.
C29_ControllerNeverWaits == ui_pc # "sleep"

\* C30: whatever the settings file held and whatever the user presses, the
\* loop ends only because Q cleared self.running.
C30_LoopEndsOnlyOnQuit == ui_pc \in {"exit", "crashed"} => ~self.running

\* With a backend of the three names no command ends the loop but Q.
KnownBackendNeverCrashes ==
    (self.backend \in {Backends[i] : i \in 1..Len(Backends)}) =>
        (ui_pc \in {"exit", "crashed"} => ~self.running)

(***************************************************************************)
(* Properties of the prompts, the reader thread and the model list.        *)
(***************************************************************************)
\* The edits whose prompt validates what was typed.
ValidatedOps ==
    {"model_dir", "gpu_layers", "n_threads", "context_size",
     "llama_server_dir"}

\* C31: an edit that refuses what was typed (no number, a number out of
\* range, a path that is no directory) changes no configuration field,
\* writes no settings file, leaves the model list, the cursor and the offset
\* alone, and sets the status message.
C31_RefusedEditChangesNothing ==
    (last.op \in ValidatedOps /\ last.how = "invalid") =>
        /\ Config = last.pre.config
        /\ settings_file = last.file
        /\ self.files = last.pre.files
        /\ self.selected_file_idx = last.pre.selected_file_idx
        /\ self.file_offset = last.pre.file_offset
        /\ self.msg_log = last.ret /\ last.ret # ""

C31_Witness ==
    /\ last.op = "context_size" /\ last.how = "invalid"
    /\ last.arg = <<53, 49, 49>>
    /\ self.msg_log = "Value must be at least 512."
    /\ last.pre.config.n_threads = 2
    /\ settings_file # Pickled(Config)

\* The stream reader t reads has ended: the pipe is empty and its writer
\* has exited or has been terminated.
EndOfStream(t) ==
    /\ threads[t].stream # None
    /\ pipe[threads[t].stream] = <<>>
    /\ proc[threads[t].stream] # "running"

ReaderStep ==
    \A t \in Children :
       /\ (threads[t].pc = "append" /\ threads'[t].pc # "append") =>
              threads'[t].pc \in {"len", "readline"}
       /\ (threads[t].stream # None /\ threads[t].pc # "done"
             /\ threads'[t].pc = "done") => EndOfStream(t)

\* C32: a reader thread that reads a stream returns only at the end of that
\* stream: no line, decodable or not, ends it (it goes on to the next
\* read); and once the writer of the stream has exited or has been
\* terminated the thread returns by itself, as long as the program runs.
C32_ReaderEndsAtEndOfStream ==
    /\ [][ReaderStep]_vars
    /\ \A t \in Children :
          (threads[t].stream # None /\ proc[threads[t].stream] # "running")
             ~> (threads[t].pc = "done" \/ ui_pc = "exit")

\* The reader has read the line that does not decode and the text after it,
\* and has returned after K.
C32_Witness ==
    /\ threads[1].pc = "done" /\ written[1] = MaxWrites /\ pipe[1] = <<>>
    /\ proc[1] = "reaped" /\ self.server_process = None
    /\ threads[2].pc = "readline" /\ threads[2].stream = 2
    /\ self.log_buffer = << <<65533, Letter(2, 1)>> >>

\* C33: when the process has ended after Q its exit status is 0; when it
\* has ended because the terminal or the controller could not be set up,
\* a fatal message is on standard error and the exit status is not 0.
C33_ProgramOutcome ==
    (ui_pc = "ended" /\ last.op = "main") =>
        /\ last.via = "Q" => last.exited.status = 0
        /\ last.via = "__init__" =>
              /\ last.exited.status # 0
              /\ last.exited.stderr # ""

\* What does hold: after Q the exit status is 0 and nothing is printed.
QuitExitsWithSuccess ==
    (ui_pc = "ended" /\ last.op = "main" /\ last.via = "Q") =>
        last.exited = [status |-> 0, stdout |-> "", stderr |-> ""]

\* The cursor is inside the window the list shows.
InViewport(s) ==
    /\ s.file_offset <= s.selected_file_idx
    /\ s.selected_file_idx < s.file_offset + max_items

CursorStep ==
    /\ ui_pc' = "getch" => InViewport(self')
    /\ self'.selected_file_idx # self.selected_file_idx =>
          \/ ui_pc = "getch" /\ self.active_field = 0
          \/ last'.op = "refresh_file_list"

\* C34: once the main screen has been drawn the cursor is inside the
\* window (file_offset <= selected_file_idx < file_offset + max_items); the
\* cursor moves only by an arrow key pressed while the model list has the
\* focus, or by a refresh of the list.
C34_CursorInViewport == [][CursorStep]_vars

C34_Witness ==
    /\ ui_pc = "getch" /\ self.active_field = 0
    /\ self.selected_file_idx = 1 /\ self.file_offset = 2 - max_items
    /\ Len(self.files) = 2

\* C35: whenever the model list is not empty the cursor designates one of
\* its entries: 0 <= selected_file_idx < len(files).
C35_CursorInList ==
    self.files # <<>> =>
        /\ 0 <= self.selected_file_idx
        /\ self.selected_file_idx < Len(self.files)

\* The cursor has been moved down to the last entry of a list that Enter on
\* the model directory has listed again.
C35_Witness ==
    /\ self.files # <<>> /\ self.selected_file_idx = Len(self.files) - 1
    /\ self.selected_file_idx > 0
    /\ self.active_field = 0 /\ ui_pc = "loop"
    /\ self.msg_log = MsgDirUpdated

ViewStep ==
    (Mode(self) # "MAIN" /\ self' # self) =>
        /\ \/ self' = [self EXCEPT !.show_log = FALSE]
           \/ self' = [self EXCEPT !.show_nvidia_smi = FALSE]
        /\ Mode(self') = "MAIN"
        /\ UNCHANGED <<ui_pc, proc, cmd, settings_file>>

\* C36: a key pressed in the log view or in the NVIDIA-SMI view closes the
\* view and does nothing else: server_process, log_buffer, the
\* configuration, the selected field and self.running stay as they are, no
\* child is spawned or signalled and nothing is saved.
C36_ViewKeyOnlyCloses == [][ViewStep]_vars

C36_Witness ==
    /\ last.op = "pass" /\ last.via = "log" /\ ~self.show_log
    /\ self.server_process # None /\ self.running /\ ui_pc = "loop"
    /\ self.active_field = 3

\* Child c is the recorded ServerInstance, it runs, and the pipe p of one of
\* its streams is full: c waits in write().
Blocked(p, c) ==
    self.server_process = c /\ proc[c] = "running" /\ p[c] # <<>>

\* Once the pipe has room again, or the child is gone, c waits no more.
Released(p, c) == p[c] = <<>> \/ proc[c] # "running"

\* The stream that _log_reader_thread reads is drained while a reader holds
\* it: a recorded child that waits on its full stderr pipe is released.
StderrIsDrained ==
    \A c \in Children :
        (Blocked(pipe, c) /\ \E t \in Children : threads[t].stream = c)
            ~> Released(pipe, c)

\* Nothing reads the standard output of the child.
StdoutIsDrained ==
    \A c \in Children : Blocked(stdout_pipe, c) ~> Released(stdout_pipe, c)

\* C37: every stream of the child that start_server redirects to a pipe is
\* drained for the lifetime of the ServerInstance: a recorded child that
\* waits on a full pipe, of its standard output or of its diagnostic
\* stream, is released.
C37_EveryPipeIsDrained ==
    \A c \in Children :
        /\ Blocked(pipe, c) ~> Released(pipe, c)
        /\ Blocked(stdout_pipe, c) ~> Released(stdout_pipe, c)

\* The child that wrote a line of the log buffer: the line ends with the
\* letter the child's script gave it.
WrittenBy(line_str, c) ==
    \E k \in 1..MaxWrites : line_str[Len(line_str)] = Letter(c, k)

\* C38: the log buffer shown for a ServerInstance holds only lines read from
\* the stderr of that instance: once start_server has reset the buffer for
\* child c, every line in it was written by c, whatever a reader thread of
\* an earlier child does.
C38_BufferHoldsOwnLines ==
    \A c \in Children :
        (self.server_process = c /\ ui_pc # "starting") =>
            \A i \in 1..Len(self.log_buffer) :
                WrittenBy(self.log_buffer[i], c)

\* datetime.now().strftime("%H:%M") at hour h, minute m: two digits each.
strftime_HM(h, m) ==
    <<48 + (h \div 10), 48 + (h % 10), 58, 48 + (m \div 10), 48 + (m % 10)>>

\* The comparison of line 316 succeeds at some minute of the day.
CanMatch(t) ==
    \E h \in 0..23, m \in 0..59 : strftime_HM(h, m) = t

\* C39: every time the schedule prompt accepts and activates is one the
\* scheduler can match: there is a minute of the day at which the clock,
\* printed as zero-padded HH:MM, equals schedule_time.
C39_AcceptedTimeCanFire ==
    (last.op = "schedule_on" /\ self.schedule_active) =>
        CanMatch(self.schedule_time)

\* A stop command pressed while the recorded child has already exited, and
\* a start command pressed after a stop has succeeded.
RecoverStep ==
    /\ (/\ self.server_process # None
        /\ proc[self.server_process] # "running"
        /\ last'.op = "kill_server" /\ last'.via = "K") =>
           /\ last'.ret \in {MsgStopped, MsgFallback}
           /\ last'.how \in {"group", "fallback"}
           /\ self'.msg_log = last'.ret
           /\ self'.server_process = None
           /\ self'.running_model_path = NoPath
    /\ (/\ self.server_process = None
        /\ last'.op \in {"start_server", "starting"} /\ last'.via = "S") =>
           last'.ret # MsgAlready

\* C40: the operator can always recover from a dead child: when a
\* ServerInstance is recorded and its child has already exited, one stop
\* command returns a success message, through the group path or through
\* the fallback path, and clears the ServerInstance; after it a start
\* command is not refused as a second start.
C40_StopRecoversDeadChild == [][RecoverStep]_vars

\* K, pressed on a child that had exited on its own and was not reaped yet,
\* has cleared the record through the fallback path.
C40_Witness ==
    /\ last.op = "kill_server" /\ last.via = "K"
    /\ last.pre.server_process = 1 /\ last.pre.child = "zombie"
    /\ last.how = "fallback" /\ self.msg_log = MsgFallback
    /\ self.server_process = None /\ proc[1] = "reaped"
    /\ ui_pc = "loop"

====
